---- MODULE Spec2Model ----
(***************************************************************************)
(* Surveillance decode, track maintenance and conflict detection of the   *)
(* ATC assistant: AsterixDecoder.ts, RadarDataProcessor.ts, the           *)
(* ConflictDetectionService and the OpenAIClient.                         *)
(*                                                                         *)
(* The specifications of this module:                                      *)
(*   SpecDecoder   - the pure ASTERIX record decoder applied to bounded    *)
(*                   byte buffers;                                         *)
(*   SpecRadar     - the track table, the aircraft map and the            *)
(*                   maintenance timer of RadarDataProcessor;             *)
(*   SpecTrack     - updates of one track over several bursts;            *)
(*   SpecBurst     - bursts that begin with a faulty message;             *)
(*   SpecConflict  - the conflict life cycle of ConflictDetectionService; *)
(*   SpecDetect    - the detection cycle over traffic at the edges of the *)
(*                   pairwise test;                                        *)
(*   SpecAnalyze   - analyzeConflict and the resolution call;             *)
(*   SpecService   - initialize, detection timer, subscribers, shutdown;  *)
(*   SpecIsolation - a detection cycle suspended at its awaits;           *)
(*   SpecSeverity  - calculateSeverity on pairs of inputs;                *)
(*   SpecStatus    - updateConflictStatus on records of any age;          *)
(*   SpecKey       - track keys of updates with transponder codes;        *)
(*   SpecClient    - executeWithRetry and enforceRateLimit of the         *)
(*                   OpenAIClient under concurrent callers.               *)
(* Time is counted in seconds and advances in ticks of TickSeconds; the   *)
(* client counts milliseconds.                                            *)
(***************************************************************************)
EXTENDS Integers, Sequences, FiniteSets, TLC

VARIABLES
    \* ---- AsterixDecoder / field specification parsing (SpecDecoder)
    dData,          \* the input buffer: a sequence of octets
    dCategory,      \* the category handed to decodeMessage
    dResult,        \* outcome of decodeMessage, NoResult before the call
    dFieldSpec,     \* outcome of readFieldSpecification, NoResult before
    \* ---- RadarDataProcessor (SpecRadar)
    now,                \* Date.now(), in seconds
    isProcessing,       \* RadarDataProcessor.isProcessing
    isHung,             \* a call that never returns holds the event loop
    maintenanceTimers,  \* next firing time of every setInterval started
    radarTracks,        \* Map<number, RadarTrack>, in insertion order
    aircraftMap,        \* Map<string, Aircraft>, in insertion order
    messagesProcessed,  \* processingStats.messagesProcessed
    rReturned,          \* what the call that just returned gave its caller
    \* ---- ConflictDetectionService (SpecConflict)
    activeConflicts,    \* Map<string, Conflict>, in insertion order
    conflictHistory,    \* Conflict[]
    trajectoryCache,    \* Map<string, TrajectoryPrediction>
    pendingAnalyses,    \* analyzeConflict calls suspended at their await
    lastCycle,          \* the conflicts the latest detectConflicts found
    cReturned,          \* the list detectConflicts just returned, or an error thrown
    isRunning,          \* ConflictDetectionService.isRunning
    detectionTimers,    \* next firing time of every detection setInterval started
    detectionInterval,  \* the timer handle kept: an index of detectionTimers, 0 for none
    subscribers,        \* the number of callbacks in ConflictDetectionService.subscribers
    delivered,          \* what notifySubscribers last handed to the callbacks
    \* ---- calculateSeverity applied to two inputs (SpecSeverity)
    sevInput,           \* two (separation, timeToConflict) pairs
    sevResult,          \* their severities, NoResult before the calls
    \* ---- a detection cycle suspended at its awaits (SpecIsolation)
    objects,            \* the Aircraft objects ever created, by identity
    aircraftRefs,       \* aircraftMap as references: callsign to identity
    cycle,              \* the locals of the detectConflicts call in flight
    \* ---- OpenAIClient (SpecClient)
    clientNow,          \* Date.now() as the client reads it, in milliseconds
    limiter,            \* requestCount, windowStart, lastRequestTime and the limit
    callers,            \* the executeWithRetry calls: position and locals of each
    admitted            \* the times at which enforceRateLimit let a request pass

decoderVars == <<dData, dCategory, dResult, dFieldSpec>>

radarVars == <<now, isProcessing, isHung, maintenanceTimers, radarTracks, aircraftMap,
               messagesProcessed, rReturned>>

conflictVars == <<activeConflicts, conflictHistory, trajectoryCache, pendingAnalyses,
                  lastCycle, cReturned>>

serviceVars == <<isRunning, detectionTimers, detectionInterval, subscribers, delivered>>

severityVars == <<sevInput, sevResult>>

isolationVars == <<objects, aircraftRefs, cycle>>

clientVars == <<clientNow, limiter, callers, admitted>>

vars == <<decoderVars, radarVars, conflictVars, serviceVars, severityVars, isolationVars,
          clientVars>>

\* what the actions of one component leave alone
nonDecoderVars == <<radarVars, conflictVars, serviceVars, severityVars, isolationVars,
                    clientVars>>

nonRadarVars == <<decoderVars, conflictVars, serviceVars, severityVars, isolationVars,
                  clientVars>>

nonConflictVars == <<decoderVars, isProcessing, isHung, maintenanceTimers, radarTracks,
                     aircraftMap, messagesProcessed, rReturned, severityVars,
                     isolationVars, clientVars>>

NoResult == [kind |-> "none"]

\* the decoder variables while another specification runs
DecoderIdle ==
    /\ dData = <<>>
    /\ dCategory = 48
    /\ dResult = NoResult
    /\ dFieldSpec = NoResult

\* the conflict service as constructed
ConflictInit ==
    /\ activeConflicts = <<>>
    /\ conflictHistory = <<>>
    /\ trajectoryCache = <<>>
    /\ pendingAnalyses = <<>>
    /\ lastCycle = NoResult
    /\ cReturned = NoResult
    /\ isRunning = FALSE
    /\ detectionTimers = <<>>
    /\ detectionInterval = 0
    /\ subscribers = 0
    /\ delivered = NoResult

\* no cycle in flight
IdleCycle ==
    [pc |-> "idle", at |-> 0, input |-> <<>>, snapshot |-> <<>>, i |-> 1, j |-> 2,
     predictions |-> <<>>, detected |-> <<>>, evaluated |-> <<>>, interleaved |-> FALSE]

\* no Aircraft object created
IsolationIdle ==
    /\ objects = <<>>
    /\ aircraftRefs = <<>>
    /\ cycle = IdleCycle

\* the number of executeWithRetry calls in flight at once
MaxCallers == 2

Callers == 1..MaxCallers

\* Date.now() when the client is constructed, in milliseconds
ConstructedAt == 100000

\* a call not yet made
IdleCaller ==
    [pc |-> "idle", config |-> NoResult, attempt |-> 0, wake |-> 0, outcomes |-> <<>>,
     delays |-> <<>>]

\* the client as constructed: the field initialisers and the default rate limit
ClientInit ==
    /\ clientNow = ConstructedAt
    /\ limiter = [requestCount |-> 0, windowStart |-> ConstructedAt, lastRequestTime |-> 0,
                  requestsPerMinute |-> 50]
    /\ callers = [c \in Callers |-> IdleCaller]
    /\ admitted = <<>>

\* calculateSeverity not called
SeverityIdle ==
    /\ sevInput = NoResult
    /\ sevResult = NoResult
    /\ IsolationIdle
    /\ ClientInit

\* ------------------------------------------------------------------------
\* Bounds of the decoder inputs
\* ------------------------------------------------------------------------
MaxLen == 3

\* octets the input buffers are built from: every single presence bit that
\* matters (0x80, 0x40, 0x02), two fields at once (0x60), the continuation
\* bit alone (0x01), and zero
ByteVals == {0, 1, 2, 64, 96, 128, 129}

InputCategories == {48, 62, 1}

RECURSIVE SeqsUpTo(_, _)
SeqsUpTo(S, n) ==
    IF n = 0 THEN {<<>>}
    ELSE LET shorter == SeqsUpTo(S, n - 1)
         IN shorter \cup {Append(s, b) : s \in {t \in shorter : Len(t) = n - 1}, b \in S}

\* ------------------------------------------------------------------------
\* Octet helpers
\* ------------------------------------------------------------------------
RECURSIVE Pow2(_)
Pow2(n) == IF n = 0 THEN 1 ELSE 2 * Pow2(n - 1)

\* fspecByte & (1 << n) is non-zero
BitSet(b, n) == (b \div Pow2(n)) % 2 = 1

\* data.subarray(from, to) on 0-based offsets, clamped as Buffer does
subarray(data, from, to) ==
    LET t == IF to > Len(data) THEN Len(data) ELSE to
    IN IF from >= t THEN <<>> ELSE SubSeq(data, from + 1, t)

\* ------------------------------------------------------------------------
\* AsterixDecoder
\* ------------------------------------------------------------------------
\* the field catalogue registered for each category: id -> type and length
Cat048Fields ==
    (16  :> [type |-> "FIXED",    length |-> 2]) @@   \* 0x010
    (32  :> [type |-> "VARIABLE", length |-> 0]) @@   \* 0x020
    (64  :> [type |-> "FIXED",    length |-> 4]) @@   \* 0x040
    (112 :> [type |-> "FIXED",    length |-> 2]) @@   \* 0x070
    (144 :> [type |-> "FIXED",    length |-> 2]) @@   \* 0x090
    (544 :> [type |-> "FIXED",    length |-> 3]) @@   \* 0x220
    (576 :> [type |-> "FIXED",    length |-> 6])      \* 0x240

Cat062Fields ==
    (16  :> [type |-> "FIXED",    length |-> 2]) @@   \* 0x010
    (64  :> [type |-> "FIXED",    length |-> 2]) @@   \* 0x040
    (261 :> [type |-> "FIXED",    length |-> 8]) @@   \* 0x105
    (310 :> [type |-> "FIXED",    length |-> 2]) @@   \* 0x136
    (896 :> [type |-> "COMPOUND", length |-> 0])      \* 0x380

\* a registry that answers for every category with the catalogue of 048
categoriesWithDefault == (48 :> Cat048Fields) @@ (62 :> Cat062Fields) @@ (1 :> Cat048Fields)

categories == (48 :> Cat048Fields) @@ (62 :> Cat062Fields)

\* fieldMap[index] || null; 0 stands for null.  Entries 26 and 27 of the
\* source are not numbers (0x SP, 0x RE) and select no catalogue field.
fieldMap ==
    (1 :> 16) @@ (2 :> 32) @@ (3 :> 64) @@ (4 :> 112) @@ (5 :> 144) @@
    (6 :> 304) @@ (7 :> 544) @@ (8 :> 576) @@ (9 :> 592) @@ (10 :> 353) @@
    (11 :> 66) @@ (12 :> 512) @@ (13 :> 368) @@ (14 :> 528) @@ (15 :> 48) @@
    (16 :> 128) @@ (17 :> 256) @@ (18 :> 272) @@ (19 :> 288) @@ (20 :> 560) @@
    (21 :> 608) @@ (22 :> 85) @@ (23 :> 80) @@ (24 :> 101) @@ (25 :> 96)

mapFieldIndexToId(index) ==
    IF index \in DOMAIN fieldMap THEN fieldMap[index] ELSE 0

\* the inner loop of readFSPEC: for (bit = 7; bit >= 1; bit--) over one octet,
\* fieldIndex being the index of the octet's first field
RECURSIVE fspecBits(_, _, _)
fspecBits(fspecByte, bit, fieldIndex) ==
    IF bit < 1 THEN <<>>
    ELSE LET fieldId == mapFieldIndexToId(fieldIndex)
             here == IF BitSet(fspecByte, bit - 1) /\ fieldId # 0
                     THEN <<fieldId>> ELSE <<>>
         IN here \o fspecBits(fspecByte, bit - 1, fieldIndex + 1)

RECURSIVE readFSPECLoop(_, _, _, _, _)
readFSPECLoop(data, offset, fspecLength, fieldIndex, presentFields) ==
    IF offset + fspecLength >= Len(data)
    THEN [kind |-> "error", error |-> "Incomplete FSPEC",
          presentFields |-> presentFields, length |-> fspecLength]
    ELSE LET fspecByte == data[offset + fspecLength + 1]
             fields == presentFields \o fspecBits(fspecByte, 7, fieldIndex)
         IN IF fspecByte % 2 = 1
            THEN readFSPECLoop(data, offset, fspecLength + 1, fieldIndex + 7, fields)
            ELSE [kind |-> "ok", error |-> "",
                  presentFields |-> fields, length |-> fspecLength + 1]

readFSPEC(data, offset) == readFSPECLoop(data, offset, 0, 1, <<>>)

\* the do/while of the VARIABLE case: octets until the extension bit is 0
RECURSIVE variableLength(_, _, _)
variableLength(data, offset, byteIndex) ==
    IF offset + byteIndex >= Len(data) THEN byteIndex
    ELSE IF data[offset + byteIndex + 1] % 2 = 1
         THEN variableLength(data, offset, byteIndex + 1)
         ELSE byteIndex + 1

getCompoundFieldLength(data, offset) ==
    LET fspecLength == variableLength(data, offset, 0)
        rest == Len(data) - offset
    IN IF rest < fspecLength + 10 THEN rest ELSE fspecLength + 10

getFieldLength(fieldDef, data, offset) ==
    CASE fieldDef.type = "FIXED" -> fieldDef.length
      [] fieldDef.type = "VARIABLE" ->
            IF offset >= Len(data) THEN 0 ELSE variableLength(data, offset, 0)
      [] fieldDef.type = "REPETITIVE" ->
            IF offset >= Len(data) THEN 0
            ELSE 1 + data[offset + 1] * (IF fieldDef.length = 0 THEN 1 ELSE fieldDef.length)
      [] fieldDef.type = "COMPOUND" -> getCompoundFieldLength(data, offset)
      [] OTHER -> 0

\* decoders that accept any slice
decoderNeverThrows(fieldId, fieldDef, fieldData) == FALSE

\* whether fieldDef.decoder(fieldData) throws: the decoders read fixed
\* offsets of their slice, so they throw exactly on a slice that is too short
decoderThrows(fieldId, fieldDef, fieldData) ==
    CASE fieldDef.type = "FIXED" -> Len(fieldData) < fieldDef.length
      [] fieldDef.type = "VARIABLE" -> Len(fieldData) < 1
      [] OTHER -> FALSE

\* the for loop of decodeDataRecord over fspec.presentFields, from position i
RECURSIVE decodeFields(_, _, _, _, _, _)
decodeFields(category, data, presentFields, i, offset, acc) ==
    IF i > Len(presentFields) THEN [acc EXCEPT !.offset = offset]
    ELSE LET fieldId == presentFields[i]
             known == fieldId \in DOMAIN categories[category]
         IN IF ~known
            THEN decodeFields(category, data, presentFields, i + 1, offset,
                     [acc EXCEPT !.unknown = Append(@, fieldId)])
            ELSE LET fieldDef == categories[category][fieldId]
                     fieldLength == getFieldLength(fieldDef, data, offset)
                     fieldData == subarray(data, offset, offset + fieldLength)
                     failed == \/ offset + fieldLength > Len(data)
                               \/ decoderThrows(fieldId, fieldDef, fieldData)
                 IN IF failed
                    THEN decodeFields(category, data, presentFields, i + 1, offset + 1,
                             [acc EXCEPT !.failed = Append(@, fieldId),
                                         !.offsets = Append(@, offset + 1)])
                    ELSE decodeFields(category, data, presentFields, i + 1,
                             offset + fieldLength,
                             [acc EXCEPT !.fields = Append(@, [id |-> fieldId,
                                                               from |-> offset,
                                                               data |-> fieldData]),
                                         !.offsets = Append(@, offset + fieldLength)])

decodeDataRecord(category, data) ==
    LET fspec == readFSPEC(data, 0)
    IN IF fspec.kind = "error"
       THEN [kind |-> "error", error |-> fspec.error, category |-> category,
             fields |-> <<>>, unknown |-> <<>>, failed |-> <<>>,
             offsets |-> <<>>, offset |-> 0, presentFields |-> <<>>]
       ELSE decodeFields(category, data, fspec.presentFields, 1, fspec.length,
                [kind |-> "ok", error |-> "", category |-> category,
                 fields |-> <<>>, unknown |-> <<>>, failed |-> <<>>,
                 offsets |-> <<fspec.length>>, offset |-> fspec.length,
                 presentFields |-> fspec.presentFields])

decodeMessage(category, data) ==
    IF category \notin DOMAIN categories
    THEN [kind |-> "error", error |-> "Unsupported ASTERIX category",
          category |-> category, fields |-> <<>>, unknown |-> <<>>,
          failed |-> <<>>, offsets |-> <<>>, offset |-> 0, presentFields |-> <<>>]
    ELSE decodeDataRecord(category, data)

\* ------------------------------------------------------------------------
\* RadarDataProcessor: field specification of a data block
\* ------------------------------------------------------------------------
bitFieldMap ==
    (1 :> 16) @@ (2 :> 32) @@ (3 :> 64) @@ (4 :> 112) @@ (5 :> 144) @@
    (6 :> 304) @@ (7 :> 544) @@ (8 :> 576) @@ (9 :> 592)

mapBitToFieldId(bitPosition) ==
    IF bitPosition \in DOMAIN bitFieldMap THEN bitFieldMap[bitPosition] ELSE 0

RECURSIVE fieldSpecBits(_, _, _)
fieldSpecBits(fspecByte, bit, byteIndex) ==
    IF bit < 1 THEN <<>>
    ELSE LET asterixFieldId == mapBitToFieldId((byteIndex * 7) + (8 - bit))
             here == IF BitSet(fspecByte, bit - 1) /\ asterixFieldId # 0
                     THEN <<asterixFieldId>> ELSE <<>>
         IN here \o fieldSpecBits(fspecByte, bit - 1, byteIndex)

RECURSIVE readFieldSpecificationLoop(_, _, _, _)
readFieldSpecificationLoop(data, offset, byteIndex, fields) ==
    IF offset + byteIndex >= Len(data)
    THEN [kind |-> "ok", fields |-> fields, length |-> byteIndex]   \* break
    ELSE LET fspecByte == data[offset + byteIndex + 1]
             more == fields \o fieldSpecBits(fspecByte, 7, byteIndex)
         IN IF fspecByte % 2 = 1
            THEN readFieldSpecificationLoop(data, offset, byteIndex + 1, more)
            ELSE [kind |-> "ok", fields |-> more, length |-> byteIndex + 1]

readFieldSpecification(data, offset) == readFieldSpecificationLoop(data, offset, 0, <<>>)

\* ------------------------------------------------------------------------
\* RadarDataProcessor: parsing a burst into messages
\* ------------------------------------------------------------------------
\* An optional value: <<>> is undefined, <<v>> is the value v.
None == <<>>
Some(v) == <<v>>

readUInt16BE(data, offset) == data[offset + 1] * 256 + data[offset + 2]

readInt16BE(data, offset) ==
    LET u == readUInt16BE(data, offset)
    IN IF u >= 32768 THEN u - 65536 ELSE u

\* asterixFields: the lengths parseDataBlocks consumes, by field id
asterixFields ==
    (16 :> 2) @@ (32 :> 1) @@ (64 :> 4) @@ (112 :> 2) @@ (144 :> 2) @@
    (304 :> 1) @@ (544 :> 3) @@ (576 :> 6) @@ (592 :> 8)

\* code.toString(8).padStart(4, '0') as character codes
toOctal4(code) ==
    <<48 + ((code \div 512) % 8), 48 + ((code \div 64) % 8),
      48 + ((code \div 8) % 8), 48 + (code % 8)>>

\* parseInt(str, 8) of a string of octal digits
RECURSIVE parseIntOctal(_)
parseIntOctal(str) ==
    IF str = <<>> THEN 0
    ELSE 8 * parseIntOctal(SubSeq(str, 1, Len(str) - 1)) + (str[Len(str)] - 48)

Whitespace == {9, 10, 11, 12, 13, 32}

RECURSIVE trimStart(_)
trimStart(str) ==
    IF str # <<>> /\ Head(str) \in Whitespace THEN trimStart(Tail(str)) ELSE str

RECURSIVE trimEnd(_)
trimEnd(str) ==
    IF str # <<>> /\ str[Len(str)] \in Whitespace
    THEN trimEnd(SubSeq(str, 1, Len(str) - 1)) ELSE str

\* data.toString('ascii').replace(/\0/g, '').trim()
asciiCallsign(data) ==
    LET ascii == [i \in 1..Len(data) |-> data[i] % 128]
    IN trimEnd(trimStart(SelectSeq(ascii, LAMBDA c : c # 0)))

decodeAsterixField(fieldId, data) ==
    CASE fieldId = 16  -> [sac |-> data[1], sic |-> data[2]]
      [] fieldId = 64  -> [range |-> readUInt16BE(data, 0),      \* in 1/256 NM
                           azimuth |-> readUInt16BE(data, 2)]    \* in 360/65536 deg
      [] fieldId = 112 -> [code |-> toOctal4(readUInt16BE(data, 0) % 4096)]
      [] fieldId = 144 -> [flightLevel |-> readInt16BE(data, 0)] \* in 1/4 FL
      [] fieldId = 576 -> [callsign |-> asciiCallsign(data)]
      [] OTHER -> [raw |-> data]

\* the for loop of parseDataBlocks over fspec.fields
RECURSIVE parseBlockFields(_, _, _, _, _)
parseBlockFields(data, fields, i, offset, blocks) ==
    IF i > Len(fields) THEN [offset |-> offset, blocks |-> blocks]
    ELSE LET fieldId == fields[i]
         IN IF fieldId \in DOMAIN asterixFields /\ offset + asterixFields[fieldId] <= Len(data)
            THEN LET fieldData == subarray(data, offset, offset + asterixFields[fieldId])
                 IN parseBlockFields(data, fields, i + 1, offset + asterixFields[fieldId],
                        Append(blocks, [itemId |-> fieldId, data |-> fieldData,
                                        decoded |-> decodeAsterixField(fieldId, fieldData)]))
            ELSE parseBlockFields(data, fields, i + 1, offset, blocks)

RECURSIVE parseDataBlocksLoop(_, _, _)
parseDataBlocksLoop(data, offset, blocks) ==
    IF offset >= Len(data) THEN blocks
    ELSE LET fspec == readFieldSpecification(data, offset)
             after == parseBlockFields(data, fspec.fields, 1, offset + fspec.length, blocks)
         IN parseDataBlocksLoop(data, after.offset, after.blocks)

parseDataBlocks(data, category) ==
    IF category # 48 THEN <<>> ELSE parseDataBlocksLoop(data, 0, <<>>)

\* the while loop of parseAsterixData; a header that declares length 0 never
\* advances the offset, so the loop does not end
RECURSIVE parseAsterixDataLoop(_, _, _, _)
parseAsterixDataLoop(rawData, offset, timestamp, messages) ==
    IF ~(offset < Len(rawData) - 3) THEN [kind |-> "ok", messages |-> messages]
    ELSE LET category == rawData[offset + 1]
             length == readUInt16BE(rawData, offset + 1)
         IN IF offset + length > Len(rawData)
            THEN [kind |-> "ok", messages |-> messages]
            ELSE IF length = 0
            THEN [kind |-> "hang", messages |-> messages]
            ELSE LET messageData == subarray(rawData, offset + 3, offset + length)
                     dataSourceId == IF Len(messageData) >= 2
                                     THEN readUInt16BE(messageData, 0) ELSE 0
                     dataBlocks == parseDataBlocks(subarray(messageData, 2, Len(messageData)),
                                                   category)
                 IN parseAsterixDataLoop(rawData, offset + length, timestamp,
                        Append(messages, [category |-> category, length |-> length,
                                          dataSourceId |-> dataSourceId,
                                          timestamp |-> timestamp, data |-> dataBlocks]))

parseAsterixData(rawData, timestamp) == parseAsterixDataLoop(rawData, 0, timestamp, <<>>)

\* ------------------------------------------------------------------------
\* RadarDataProcessor: tracks
\* ------------------------------------------------------------------------
\* Latitude and longitude are in 1/10000 degree, altitude in feet, speeds in
\* m/s rounded towards zero, headings in whole degrees, qualities in 1/1000.
EwrPosition(altitude, timestamp) ==
    [latitude |-> 406892, longitude |-> -741745, altitude |-> altitude,
     timestamp |-> timestamp]

\* truthiness of an optional number and of an optional string
TruthyNumber(opt) == opt # None /\ opt[1] # 0

TruthyString(opt) == opt # None /\ Len(opt[1]) > 0

\* opt || fallback
NumberOr(opt, fallback) == IF TruthyNumber(opt) THEN opt[1] ELSE fallback

StringOr(opt, fallback) == IF TruthyString(opt) THEN opt[1] ELSE fallback

generateTrackNumber(dataSourceId, squawkCode, random) ==
    LET base == dataSourceId * 10000
        suffix == IF TruthyString(squawkCode) THEN parseIntOctal(squawkCode[1]) % 1000
                  ELSE random
    IN base + suffix

\* the for loop of extractTrackData over message.data; keys is the set of
\* properties assigned on trackData
RECURSIVE extractBlocks(_, _, _)
extractBlocks(message, i, trackData) ==
    IF i > Len(message.data) THEN trackData
    ELSE LET block == message.data[i]
             next ==
               CASE block.itemId = 64 ->
                      IF block.decoded.range # 0 /\ block.decoded.azimuth # 0
                      THEN [trackData EXCEPT
                              !.position = Some(EwrPosition(NumberOr(trackData.flightLevel, 0),
                                                            message.timestamp)),
                              !.keys = @ \cup {"position"}]
                      ELSE trackData
                 [] block.itemId = 112 ->
                      [trackData EXCEPT !.squawkCode = Some(block.decoded.code),
                                        !.keys = @ \cup {"squawkCode"}]
                 [] block.itemId = 144 ->
                      [trackData EXCEPT !.flightLevel = Some(block.decoded.flightLevel * 25),
                                        !.keys = @ \cup {"flightLevel"}]
                 [] block.itemId = 576 ->
                      [trackData EXCEPT !.callsign = Some(block.decoded.callsign),
                                        !.keys = @ \cup {"callsign"}]
                 [] OTHER -> trackData
         IN extractBlocks(message, i + 1, next)

extractTrackData(message, random) ==
    LET trackData == extractBlocks(message, 1,
                        [keys |-> {}, position |-> None, squawkCode |-> None,
                         flightLevel |-> None, callsign |-> None, trackNumber |-> 0])
    IN [trackData EXCEPT
          !.trackNumber = generateTrackNumber(message.dataSourceId, trackData.squawkCode, random),
          !.keys = @ \cup {"trackNumber"}]

\* Math.cos(latitude) in 1/100, for the two latitudes a track position has
cosLatitude(latitude) == IF latitude = 0 THEN 100 ELSE 76

calculateVelocity(pos1, pos2, time1, time2) ==
    LET deltaTime == time2 - time1   \* seconds
    IN IF deltaTime <= 0 THEN [x |-> 0, y |-> 0, z |-> 0]
       ELSE LET deltaLat == ((pos2.latitude - pos1.latitude) \div 100) * 1113
                deltaLon == (((pos2.longitude - pos1.longitude) \div 100) * 1113
                               * cosLatitude(pos1.latitude)) \div 100
                deltaAlt == pos2.altitude - pos1.altitude
            IN [x |-> deltaLon \div deltaTime,
                y |-> deltaLat \div deltaTime,
                z |-> deltaAlt \div deltaTime]

\* Math.atan2(x, y) * 180 / Math.PI for the directions a track can take:
\* the axes, and the bearing from (0, 0) to the radar site
atan2Degrees(x, y) ==
    CASE x = 0 /\ y >= 0 -> 0
      [] x = 0 /\ y < 0 -> 180
      [] x > 0 /\ y = 0 -> 90
      [] x < 0 /\ y = 0 -> -90
      [] x < 0 /\ y > 0 -> -61

\* the bearing as Math.atan2 returns it, between -180 and 180
calculateHeadingRaw(velocity) == atan2Degrees(velocity.x, velocity.y)

calculateHeading(velocity) ==
    LET heading == atan2Degrees(velocity.x, velocity.y)
    IN IF heading < 0 THEN heading + 360 ELSE heading

\* Math.sqrt(n) rounded down, by bisection between lo and hi
RECURSIVE isqrtBetween(_, _, _)
isqrtBetween(n, lo, hi) ==
    IF lo >= hi THEN lo
    ELSE LET mid == (lo + hi + 1) \div 2
         IN IF mid * mid <= n THEN isqrtBetween(n, mid, hi) ELSE isqrtBetween(n, lo, mid - 1)

isqrt(n) == isqrtBetween(n, 0, 46340)

Abs(n) == IF n < 0 THEN -n ELSE n

\* Math.sqrt(x*x + y*y); speeds beyond 30 km/s are taken in whole km/s
calculateGroundSpeed(velocity) ==
    IF Abs(velocity.x) <= 30000 /\ Abs(velocity.y) <= 30000
    THEN isqrt(velocity.x * velocity.x + velocity.y * velocity.y)
    ELSE 1000 * isqrt((velocity.x \div 1000) * (velocity.x \div 1000)
                      + (velocity.y \div 1000) * (velocity.y \div 1000))

\* the decay of the confidence without its lower bound
calculateTrackQualityNoFloor(existing, update, nowT) ==
    LET ageSeconds == nowT - existing.lastUpdate
    IN [confidence |-> existing.trackQuality.confidence - (ageSeconds * 10),
        positionAccuracy |-> existing.trackQuality.positionAccuracy,
        velocityAccuracy |-> existing.trackQuality.velocityAccuracy,
        ageSeconds |-> ageSeconds,
        sourceReliability |-> existing.trackQuality.sourceReliability]

calculateTrackQuality(existing, update, nowT) ==
    LET ageSeconds == nowT - existing.lastUpdate
        decayed == existing.trackQuality.confidence - (ageSeconds * 10)
    IN [confidence |-> IF decayed < 100 THEN 100 ELSE decayed,
        positionAccuracy |-> existing.trackQuality.positionAccuracy,
        velocityAccuracy |-> existing.trackQuality.velocityAccuracy,
        ageSeconds |-> ageSeconds,
        sourceReliability |-> existing.trackQuality.sourceReliability]

\* Map helpers: a Map is a sequence of entries in insertion order
MapIndex(map, key) ==
    IF \E i \in 1..Len(map) : map[i].key = key
    THEN CHOOSE i \in 1..Len(map) : map[i].key = key ELSE 0

MapHas(map, key) == MapIndex(map, key) # 0

MapGet(map, key) == map[MapIndex(map, key)].value

MapSet(map, key, value) ==
    IF MapHas(map, key)
    THEN [map EXCEPT ![MapIndex(map, key)] = [key |-> key, value |-> value]]
    ELSE Append(map, [key |-> key, value |-> value])

MapDelete(map, key) == SelectSeq(map, LAMBDA e : e.key # key)

MapValues(map) == [i \in 1..Len(map) |-> map[i].value]

\* a merge that copies the four attributes from the update whether or not
\* the update carries them, as the creation of a track does
mergeTrackOverwriting(existingTrack, trackData) ==
    [existingTrack EXCEPT
        !.callsign = trackData.callsign,
        !.squawkCode = trackData.squawkCode,
        !.flightLevel = trackData.flightLevel,
        !.position = IF trackData.position # None THEN trackData.position[1]
                     ELSE [latitude |-> 0, longitude |-> 0, altitude |-> 0,
                           timestamp |-> existingTrack.lastUpdate]]

\* { ...existingTrack, ...trackData }: the properties present on trackData
\* overwrite those of the track
mergeTrack(existingTrack, trackData) ==
    [existingTrack EXCEPT
        !.callsign = IF "callsign" \in trackData.keys THEN trackData.callsign ELSE @,
        !.squawkCode = IF "squawkCode" \in trackData.keys THEN trackData.squawkCode ELSE @,
        !.flightLevel = IF "flightLevel" \in trackData.keys THEN trackData.flightLevel ELSE @,
        !.position = IF "position" \in trackData.keys THEN trackData.position[1] ELSE @]

\* an updated track stamped with the time elapsed since the last update
\* instead of the time of the update
updatedTrackStampedByAge(existingTrack, trackData, nowT) ==
    [mergeTrack(existingTrack, trackData) EXCEPT
        !.lastUpdate = nowT - existingTrack.lastUpdate,
        !.trackQuality = calculateTrackQuality(existingTrack, trackData, nowT)]

\* the object literal updatedTrack of updateRadarTrack
updatedTrackLiteral(existingTrack, trackData, nowT) ==
    [mergeTrack(existingTrack, trackData) EXCEPT
        !.lastUpdate = nowT,
        !.trackQuality = calculateTrackQuality(existingTrack, trackData, nowT)]

updateRadarTrack(tracks, trackData, nowT) ==
    IF trackData.trackNumber = 0 THEN tracks
    ELSE IF MapHas(tracks, trackData.trackNumber)
    THEN LET existingTrack == MapGet(tracks, trackData.trackNumber)
             merged == updatedTrackLiteral(existingTrack, trackData, nowT)
             velocity == calculateVelocity(existingTrack.position, trackData.position[1],
                                           existingTrack.lastUpdate, nowT)
             updatedTrack ==
                 IF trackData.position # None
                 THEN [merged EXCEPT !.velocity = velocity,
                                     !.heading = calculateHeading(velocity),
                                     !.groundSpeed = Some(calculateGroundSpeed(velocity))]
                 ELSE merged
         IN MapSet(tracks, trackData.trackNumber, updatedTrack)
    ELSE MapSet(tracks, trackData.trackNumber,
            [trackNumber |-> trackData.trackNumber,
             callsign |-> trackData.callsign,
             position |-> IF trackData.position # None THEN trackData.position[1]
                          ELSE [latitude |-> 0, longitude |-> 0, altitude |-> 0,
                                timestamp |-> nowT],
             velocity |-> [x |-> 0, y |-> 0, z |-> 0],
             heading |-> 0,
             squawkCode |-> trackData.squawkCode,
             flightLevel |-> trackData.flightLevel,
             groundSpeed |-> None,
             lastUpdate |-> nowT,
             trackQuality |-> [confidence |-> 800, positionAccuracy |-> 100,
                               velocityAccuracy |-> 5, ageSeconds |-> 0,
                               sourceReliability |-> 900]])

\* the for loop of processRadarData over the messages; randoms[i] is the
\* Math.random() suffix drawn for message i when it carries no squawk code
RECURSIVE processMessages(_, _, _, _, _)
processMessages(tracks, messages, i, randoms, nowT) ==
    IF i > Len(messages) THEN tracks
    ELSE processMessages(
             updateRadarTrack(tracks, extractTrackData(messages[i], randoms[i]), nowT),
             messages, i + 1, randoms, nowT)

\* what the calls of updateRadarTrack in that loop found and left in the
\* track table: the track before the call, the update, the track after it
RECURSIVE trackUpdates(_, _, _, _, _)
trackUpdates(tracks, messages, i, randoms, nowT) ==
    IF i > Len(messages) THEN <<>>
    ELSE LET trackData == extractTrackData(messages[i], randoms[i])
             after == updateRadarTrack(tracks, trackData, nowT)
             lookup(map) == IF MapHas(map, trackData.trackNumber)
                            THEN Some(MapGet(map, trackData.trackNumber)) ELSE None
         IN <<[existingTrack |-> lookup(tracks), trackData |-> trackData,
               updatedTrack |-> lookup(after)]>>
              \o trackUpdates(after, messages, i + 1, randoms, nowT)

\* `TRK${trackNumber}` as character codes
RECURSIVE decimalDigits(_)
decimalDigits(n) ==
    IF n < 10 THEN <<48 + n>> ELSE Append(decimalDigits(n \div 10), 48 + (n % 10))

trkCallsign(trackNumber) == <<84, 82, 75>> \o decimalDigits(trackNumber)

\* track.callsign || `TRK${track.trackNumber}`
trackKey(track) == StringOr(track.callsign, trkCallsign(track.trackNumber))

determineAircraftStatus(track) ==
    IF ~TruthyNumber(track.groundSpeed) THEN "UNKNOWN"
    ELSE IF track.groundSpeed[1] < 5 THEN "HOLDING"
    ELSE IF TruthyNumber(track.flightLevel) /\ track.flightLevel[1] < 1000
         THEN (IF track.groundSpeed[1] > 50 THEN "DEPARTING" ELSE "TAXIING")
    ELSE "ARRIVING"

\* the Aircraft built for a track (the flight plan holds no track data
\* besides the cruise altitude; the clearances are empty)
aircraftOf(track) ==
    [callsign |-> trackKey(track),
     cruiseAltitude |-> NumberOr(track.flightLevel, 0),
     currentPosition |-> track.position,
     velocity |-> track.velocity,
     altitude |-> NumberOr(track.flightLevel, track.position.altitude),
     heading |-> track.heading,
     squawkCode |-> StringOr(track.squawkCode, <<48, 48, 48, 48>>),
     status |-> determineAircraftStatus(track),
     lastUpdate |-> track.lastUpdate]

\* mutant: the comparison written >= instead of >
isStaleForSnapshotInclusive(track, nowT) == nowT - track.lastUpdate >= 30

\* whether convertTracksToAircraft skips the track as stale (30 seconds)
isStaleForSnapshot(track, nowT) == nowT - track.lastUpdate > 30

\* convertTracksToAircraft: the list it returns and the aircraft map it leaves
RECURSIVE convertTracksLoop(_, _, _, _, _)
convertTracksLoop(tracks, i, nowT, aircraft, map) ==
    IF i > Len(tracks) THEN [aircraft |-> aircraft, aircraftMap |-> map]
    ELSE LET track == tracks[i].value
         IN IF isStaleForSnapshot(track, nowT)
            THEN convertTracksLoop(tracks, i + 1, nowT, aircraft, map)
            ELSE convertTracksLoop(tracks, i + 1, nowT,
                     Append(aircraft, aircraftOf(track)),
                     MapSet(map, trackKey(track), aircraftOf(track)))

convertTracksToAircraft(tracks, map, nowT) == convertTracksLoop(tracks, 1, nowT, <<>>, map)

\* whether the maintenance timer evicts the track (1 minute)
isStaleForEviction(track, nowT) == (nowT - track.lastUpdate) * 1000 > 60000

\* the callback of startTrackMaintenance: the maps it leaves
RECURSIVE maintenanceLoop(_, _, _, _)
maintenanceLoop(all, i, nowT, maps) ==
    IF i > Len(all) THEN maps
    ELSE LET track == all[i].value
         IN IF isStaleForEviction(track, nowT)
            THEN maintenanceLoop(all, i + 1, nowT,
                     [radarTracks |-> MapDelete(maps.radarTracks, track.trackNumber),
                      aircraftMap |-> MapDelete(maps.aircraftMap, trackKey(track))])
            ELSE maintenanceLoop(all, i + 1, nowT, maps)

trackMaintenance(tracks, map, nowT) ==
    maintenanceLoop(tracks, 1, nowT, [radarTracks |-> tracks, aircraftMap |-> map])

\* ------------------------------------------------------------------------
\* SpecRadar: the track table under bursts, the maintenance timer and time
\* ------------------------------------------------------------------------
MaxTime == 90

TickSeconds == 15

MaxMessages == 2

MaxTimers == 1

\* Math.floor(Math.random() * 1000) is drawn from these suffixes
RandomSuffixes == {1, 5}

\* squawk 0001 alone; squawk 0001 with callsign "AB"; position, squawk 0002
\* and flight level 50; callsign "AB" without a squawk code
BurstSquawk == <<48, 0, 8, 0, 1, 8, 0, 1>>

BurstSquawkCallsign == <<48, 0, 18, 0, 1, 9, 64, 0, 1, 1, 2, 3, 65, 66, 32, 32, 32, 32>>

BurstPosition == <<48, 0, 14, 0, 1, 28, 1, 0, 2, 0, 0, 2, 0, 200>>

BurstCallsign == <<48, 0, 16, 0, 1, 1, 64, 1, 2, 3, 65, 66, 32, 32, 32, 32>>

RadarBursts ==
    {<<>>, BurstSquawk, BurstSquawkCallsign, BurstPosition, BurstCallsign,
     BurstSquawk \o BurstPosition}

RadarInit ==
    /\ now = 0
    /\ isProcessing = FALSE
    /\ isHung = FALSE
    /\ maintenanceTimers = <<>>
    /\ radarTracks = <<>>
    /\ aircraftMap = <<>>
    /\ messagesProcessed = 0
    /\ rReturned = NoResult

TimerDue == \E i \in 1..Len(maintenanceTimers) : maintenanceTimers[i] <= now

\* initialize(): isProcessing = true and setInterval(..., 30000)
RadarInitialize ==
    /\ ~isHung
    /\ Len(maintenanceTimers) < MaxTimers
    /\ isProcessing' = TRUE
    /\ maintenanceTimers' = Append(maintenanceTimers, now + 30)
    /\ rReturned' = NoResult
    /\ UNCHANGED <<now, isHung, radarTracks, aircraftMap, messagesProcessed>>
    /\ UNCHANGED nonRadarVars

RadarShutdown ==
    /\ ~isHung
    /\ isProcessing
    /\ isProcessing' = FALSE
    /\ radarTracks' = <<>>
    /\ aircraftMap' = <<>>
    /\ rReturned' = NoResult
    /\ UNCHANGED <<now, isHung, maintenanceTimers, messagesProcessed>>
    /\ UNCHANGED nonRadarVars

\* processRadarData(rawData) while fewer than maxMessages messages have been
\* processed
ProcessRadarDataUpTo(rawData, randoms, maxMessages) ==
    /\ ~isHung
    /\ LET parsed == parseAsterixData(rawData, now)
       IN IF parsed.kind = "hang"
          THEN /\ isHung' = TRUE
               /\ UNCHANGED <<radarTracks, aircraftMap, messagesProcessed, rReturned>>
          ELSE LET tracks == processMessages(radarTracks, parsed.messages, 1, randoms, now)
                   converted == convertTracksToAircraft(tracks, aircraftMap, now)
               IN /\ messagesProcessed + Len(parsed.messages) <= maxMessages
                  /\ messagesProcessed' = messagesProcessed + Len(parsed.messages)
                  /\ radarTracks' = tracks
                  /\ aircraftMap' = converted.aircraftMap
                  /\ rReturned' = [kind |-> "processRadarData",
                                   aircraft |-> converted.aircraft,
                                   updates |-> trackUpdates(radarTracks, parsed.messages, 1,
                                                            randoms, now)]
                  /\ UNCHANGED isHung
    /\ UNCHANGED <<now, isProcessing, maintenanceTimers>>
    /\ UNCHANGED nonRadarVars

ProcessRadarData(rawData, randoms) == ProcessRadarDataUpTo(rawData, randoms, MaxMessages)

\* whether generateTrackNumber draws a random suffix for some message
needsRandom(rawData) ==
    LET parsed == parseAsterixData(rawData, 0)
    IN \E i \in 1..Len(parsed.messages) :
          ~\E j \in 1..Len(parsed.messages[i].data) : parsed.messages[i].data[j].itemId = 112

ProcessBurst ==
    \E rawData \in RadarBursts :
        IF needsRandom(rawData)
        THEN \E random \in RandomSuffixes :
                ProcessRadarData(rawData, [i \in 1..MaxMessages |-> random])
        ELSE ProcessRadarData(rawData, [i \in 1..MaxMessages |-> 0])

GetAircraftPositions ==
    /\ ~isHung
    /\ rReturned' = [kind |-> "getAircraftPositions", aircraft |-> MapValues(aircraftMap)]
    /\ UNCHANGED <<now, isProcessing, isHung, maintenanceTimers, radarTracks, aircraftMap,
                   messagesProcessed>>
    /\ UNCHANGED nonRadarVars

\* a tick of the setInterval of startTrackMaintenance
TrackMaintenance ==
    /\ ~isHung
    /\ \E i \in 1..Len(maintenanceTimers) :
          /\ maintenanceTimers[i] <= now
          /\ maintenanceTimers' = [maintenanceTimers EXCEPT ![i] = @ + 30]
    /\ IF isProcessing
       THEN LET maps == trackMaintenance(radarTracks, aircraftMap, now)
            IN /\ radarTracks' = maps.radarTracks
               /\ aircraftMap' = maps.aircraftMap
       ELSE UNCHANGED <<radarTracks, aircraftMap>>
    /\ rReturned' = NoResult
    /\ UNCHANGED <<now, isProcessing, isHung, messagesProcessed>>
    /\ UNCHANGED nonRadarVars

\* time passes; a due timer fires first
RadarTick ==
    /\ ~isHung
    /\ now + TickSeconds <= MaxTime
    /\ ~TimerDue
    /\ now' = now + TickSeconds
    /\ rReturned' = NoResult
    /\ UNCHANGED <<isProcessing, isHung, maintenanceTimers, radarTracks, aircraftMap,
                   messagesProcessed>>
    /\ UNCHANGED nonRadarVars

RadarNext ==
    \/ RadarInitialize
    \/ RadarShutdown
    \/ ProcessBurst
    \/ GetAircraftPositions
    \/ TrackMaintenance
    \/ RadarTick

RadarSpecInit == RadarInit /\ DecoderIdle /\ ConflictInit /\ SeverityIdle

SpecRadar == RadarSpecInit /\ [][RadarNext]_vars

\* ------------------------------------------------------------------------
\* SpecTrack: one track under repeated updates, without the maintenance timer
\* ------------------------------------------------------------------------
MaxTrackMessages == 3

\* position, squawk 0001 and flight level 50: an update of the track that
\* BurstSquawk and BurstSquawkCallsign create
BurstSquawkPosition == <<48, 0, 14, 0, 1, 28, 1, 0, 2, 0, 0, 1, 0, 200>>

TrackBursts ==
    {BurstSquawk, BurstSquawkCallsign, BurstSquawkPosition, BurstCallsign,
     BurstSquawk \o BurstSquawkPosition}

ProcessTrackBurst ==
    \E rawData \in TrackBursts :
        IF needsRandom(rawData)
        THEN \E random \in RandomSuffixes :
                ProcessRadarDataUpTo(rawData, [i \in 1..MaxTrackMessages |-> random],
                                     MaxTrackMessages)
        ELSE ProcessRadarDataUpTo(rawData, [i \in 1..MaxTrackMessages |-> 0],
                                  MaxTrackMessages)

TrackNext == ProcessTrackBurst \/ RadarTick

SpecTrack == RadarSpecInit /\ [][TrackNext]_vars

\* ------------------------------------------------------------------------
\* SpecKey: updates of one data source that carry different transponder codes
\* ------------------------------------------------------------------------
\* squawk 1751 alone: 0o1751 = 1001
BurstSquawk1751 == <<48, 0, 8, 0, 1, 8, 3, 233>>

KeyBursts == {BurstSquawk, BurstSquawk1751, BurstSquawkPosition}

ProcessKeyBurst ==
    \E rawData \in KeyBursts :
        ProcessRadarDataUpTo(rawData, [i \in 1..MaxTrackMessages |-> 0], MaxTrackMessages)

KeyNext == ProcessKeyBurst \/ RadarTick

SpecKey == RadarSpecInit /\ [][KeyNext]_vars

\* ------------------------------------------------------------------------
\* Bursts whose first message is faulty and whose last is the complete
\* message BurstSquawk.
\* ------------------------------------------------------------------------
MaxBurstMessages == 3

\* headers whose length field is 0, 2 and 200; a message of category 34; a
\* message of category 48 whose FSPEC selects nothing
HeaderLengthZero == <<48, 0, 0>>

HeaderLengthTwo == <<48, 0, 2>>

HeaderLengthBeyond == <<48, 0, 200, 0, 1>>

MessageCategory34 == <<34, 0, 6, 0, 2, 0>>

MessageNoFields == <<48, 0, 6, 0, 3, 0>>

FaultyBursts ==
    {faulty \o BurstSquawk :
        faulty \in {HeaderLengthZero, HeaderLengthTwo, HeaderLengthBeyond,
                    MessageCategory34, MessageNoFields}}

ProcessFaultyBurst ==
    \E rawData \in FaultyBursts, random \in RandomSuffixes :
        ProcessRadarDataUpTo(rawData, [i \in 1..MaxBurstMessages |-> random],
                             MaxBurstMessages)

BurstNext == ProcessFaultyBurst \/ RadarTick

SpecBurst == RadarSpecInit /\ [][BurstNext]_vars

\* ------------------------------------------------------------------------
\* Claims about the track table (checked under SpecRadar)
\* ------------------------------------------------------------------------
TracksOf(map) == {map[i].value : i \in 1..Len(map)}

InList(x, list) == \E i \in 1..Len(list) : list[i] = x

Age(track) == now - track.lastUpdate

\* the track number a `TRK${trackNumber}` callsign names, -1 for another callsign
RECURSIVE parseDecimal(_)
parseDecimal(str) ==
    IF str = <<>> THEN 0
    ELSE 10 * parseDecimal(SubSeq(str, 1, Len(str) - 1)) + (str[Len(str)] - 48)

TrkNumberOf(callsign) ==
    IF Len(callsign) > 3 /\ SubSeq(callsign, 1, 3) = <<84, 82, 75>>
       /\ \A i \in 4..Len(callsign) : callsign[i] \in 48..57
    THEN parseDecimal(SubSeq(callsign, 4, Len(callsign)))
    ELSE -1

\* C5 (as claimed): the list returned by processRadarData holds a track of
\* the table if and only if its last update is less than 60 seconds old.
C5_SnapshotWithin60s ==
    rReturned.kind = "processRadarData" =>
        \A track \in TracksOf(radarTracks) :
            InList(aircraftOf(track), rReturned.aircraft) <=> Age(track) < 60

\* C5 (amended): the list returned by processRadarData holds a track of the
\* table if and only if its last update is at most 30 seconds old, and holds
\* nothing else.
C5_SnapshotWithin30s ==
    rReturned.kind = "processRadarData" =>
        /\ \A track \in TracksOf(radarTracks) :
              InList(aircraftOf(track), rReturned.aircraft) <=> Age(track) <= 30
        /\ \A i \in 1..Len(rReturned.aircraft) :
              \E track \in TracksOf(radarTracks) : rReturned.aircraft[i] = aircraftOf(track)

\* a snapshot taken while one track is exactly 30 seconds old (returned) and
\* another is between 30 and 60 seconds old (left out)
C5_Witness ==
    /\ rReturned.kind = "processRadarData"
    /\ \E track \in TracksOf(radarTracks) :
          Age(track) = 30 /\ InList(aircraftOf(track), rReturned.aircraft)
    /\ \E track \in TracksOf(radarTracks) :
          Age(track) > 30 /\ Age(track) < 60 /\ ~InList(aircraftOf(track), rReturned.aircraft)

\* C6: while the processor runs, and with no tick of the maintenance timer
\* overdue, getAircraftPositions never returns an aircraft whose lastUpdate
\* is more than 60 seconds old.
C6_PositionsNeverStale ==
    (rReturned.kind = "getAircraftPositions" /\ isProcessing /\ ~TimerDue) =>
        \A i \in 1..Len(rReturned.aircraft) : now - rReturned.aircraft[i].lastUpdate <= 60

\* C7: getAircraftPositions never returns an aircraft stored under the
\* synthetic TRK<number> key of a track that is no longer in the track table.
C7_NoAircraftOfEvictedTrack ==
    rReturned.kind = "getAircraftPositions" =>
        \A i \in 1..Len(rReturned.aircraft) :
            LET trackNumber == TrkNumberOf(rReturned.aircraft[i].callsign)
            IN trackNumber # -1 => MapHas(radarTracks, trackNumber)

\* ------------------------------------------------------------------------
\* Claims about the updates of a track (checked under SpecTrack)
\* ------------------------------------------------------------------------
\* the calls of updateRadarTrack of the last processRadarData that found the
\* track in the table
Merges ==
    IF rReturned.kind = "processRadarData"
    THEN {rReturned.updates[i] : i \in {j \in 1..Len(rReturned.updates) :
                                           rReturned.updates[j].existingTrack # None}}
    ELSE {}

Before(u) == u.existingTrack[1]

After(u) == u.updatedTrack[1]

SamePlace(pos1, pos2) ==
    /\ pos1.latitude = pos2.latitude
    /\ pos1.longitude = pos2.longitude
    /\ pos1.altitude = pos2.altitude

\* the key of the track the message BurstSquawk creates or updates
SquawkTrackKey ==
    processMessages(<<>>, parseAsterixData(BurstSquawk, 0).messages, 1, <<0>>, 0)[1].key

\* C29: a message of a burst that fails to parse does not keep the later
\* complete message of the burst from being applied: when processRadarData
\* is over, the track of that message is in the table, updated now.
C29_LaterMessageApplied ==
    [][(isHung' # isHung \/ rReturned'.kind = "processRadarData")
          => /\ MapHas(radarTracks', SquawkTrackKey)
             /\ MapGet(radarTracks', SquawkTrackKey).lastUpdate = now]_vars

\* C32: processRadarData returns for every finite buffer: no call is left
\* in the framing loop of parseAsterixData for ever, also when a header
\* declares the length 0.
C32_ProcessRadarDataTerminates == ~isHung

\* C15: over any sequence of updates the lastUpdate of a track never
\* decreases: an update leaves it at the time of the update, which is not
\* before the previous one.
C15_LastUpdateNeverDecreases ==
    /\ \A u \in Merges : After(u).lastUpdate >= Before(u).lastUpdate
    /\ \A track \in TracksOf(radarTracks) : track.lastUpdate <= now

\* an update that found the track with an older lastUpdate
C15_Witness ==
    \E u \in Merges : After(u).lastUpdate > Before(u).lastUpdate

\* C16: the confidence of every track is at least the floor 0.1 and at most
\* 1, from its creation through every update (in 1/1000: 100 to 1000).
C16_ConfidenceWithinBounds ==
    /\ \A track \in TracksOf(radarTracks) :
          track.trackQuality.confidence >= 100 /\ track.trackQuality.confidence <= 1000
    /\ \A u \in Merges :
          After(u).trackQuality.confidence >= 100 /\ After(u).trackQuality.confidence <= 1000

\* an update so late that the decay would have gone below the floor
C16_Witness ==
    \E u \in Merges :
        /\ Before(u).trackQuality.confidence - 10 * (now - Before(u).lastUpdate) < 100
        /\ After(u).trackQuality.confidence = 100

\* C38: two updates of one data source that carry different transponder
\* codes are never merged into one track: an update with a code is merged
\* only into a track of that code.
C38_CodesNeverMerged ==
    \A u \in Merges :
        (u.trackData.squawkCode # None /\ Before(u).squawkCode # None)
            => u.trackData.squawkCode = Before(u).squawkCode

\* C17: an update merged into an existing track leaves every attribute it
\* does not carry (callsign, transponder code, flight level, position) at
\* the value the track had.
C17_AbsentAttributesKept ==
    \A u \in Merges :
        /\ u.trackData.callsign = None => After(u).callsign = Before(u).callsign
        /\ u.trackData.squawkCode = None => After(u).squawkCode = Before(u).squawkCode
        /\ u.trackData.flightLevel = None => After(u).flightLevel = Before(u).flightLevel
        /\ u.trackData.position = None => After(u).position = Before(u).position

\* an update without callsign, flight level and position merged into a
\* track that has all three
C17_Witness ==
    \E u \in Merges :
        /\ u.trackData.callsign = None /\ Before(u).callsign # None
        /\ u.trackData.flightLevel = None /\ Before(u).flightLevel # None
        /\ u.trackData.position = None /\ Before(u).position.latitude # 0
        /\ After(u).callsign = Before(u).callsign
        /\ After(u).position = Before(u).position

\* C18: an update whose position equals the position of the track leaves
\* velocity, heading and ground speed as they were (a ground speed not yet
\* computed counts as 0, the speed of the zero velocity the track has then).
C18_SamePositionKeepsVelocity ==
    \A u \in Merges :
        (u.trackData.position # None /\ SamePlace(u.trackData.position[1], Before(u).position)) =>
            /\ After(u).velocity = Before(u).velocity
            /\ After(u).heading = Before(u).heading
            /\ NumberOr(After(u).groundSpeed, 0) = NumberOr(Before(u).groundSpeed, 0)

\* C19: an update with a position that arrives when no time has elapsed
\* since the last update of the track leaves the velocity as it was.
C19_NoElapsedTimeKeepsVelocity ==
    \A u \in Merges :
        (u.trackData.position # None /\ After(u).lastUpdate - Before(u).lastUpdate <= 0) =>
            After(u).velocity = Before(u).velocity

\* C20: the heading of every track is at least 0 and less than 360.
C20_HeadingWithinCircle ==
    /\ \A track \in TracksOf(radarTracks) : track.heading >= 0 /\ track.heading < 360
    /\ \A u \in Merges : After(u).heading >= 0 /\ After(u).heading < 360

\* a track moving to the north-west, whose bearing Math.atan2 gives as a
\* negative angle
C20_Witness ==
    \E track \in TracksOf(radarTracks) :
        track.velocity.x < 0 /\ track.velocity.y > 0 /\ track.heading > 180

\* ------------------------------------------------------------------------
\* SpecDecoder: the decoder applied to every bounded buffer
\* ------------------------------------------------------------------------
DecoderInit ==
    /\ dData \in SeqsUpTo(ByteVals, MaxLen)
    /\ dCategory \in InputCategories
    /\ dResult = NoResult
    /\ dFieldSpec = NoResult

DecodeMessage ==
    /\ dResult = NoResult
    /\ dResult' = decodeMessage(dCategory, dData)
    /\ UNCHANGED <<dData, dCategory, dFieldSpec>>
    /\ UNCHANGED nonDecoderVars

ReadFieldSpecification ==
    /\ dFieldSpec = NoResult
    /\ dFieldSpec' = readFieldSpecification(dData, 0)
    /\ UNCHANGED <<dData, dCategory, dResult>>
    /\ UNCHANGED nonDecoderVars

DecoderNext == DecodeMessage \/ ReadFieldSpecification

DecoderSpecInit == DecoderInit /\ RadarInit /\ ConflictInit /\ SeverityIdle

SpecDecoder == DecoderSpecInit /\ [][DecoderNext]_vars

\* ------------------------------------------------------------------------
\* Claims about the decoder (checked under SpecDecoder)
\* ------------------------------------------------------------------------
InSeq(x, s) == \E i \in 1..Len(s) : s[i] = x

FieldIds(fields) == [i \in 1..Len(fields) |-> fields[i].id]

\* The record layout the claims speak of: the k-th field of an FSPEC octet
\* is announced by bit (8-k), the most significant bit being bit 7.
RECURSIVE DeclaredIndexes(_, _)
DeclaredIndexes(data, octet) ==
    IF octet > Len(data) THEN <<>>
    ELSE LET here == SelectSeq([k \in 1..7 |-> (octet - 1) * 7 + k],
                               LAMBDA idx : BitSet(data[octet], 8 - (idx - (octet - 1) * 7)))
         IN IF data[octet] % 2 = 1
            THEN here \o DeclaredIndexes(data, octet + 1)
            ELSE here

RECURSIVE DeclaredFspecLength(_, _)
DeclaredFspecLength(data, octet) ==
    IF octet > Len(data) THEN 0
    ELSE IF data[octet] % 2 = 1 THEN 1 + DeclaredFspecLength(data, octet + 1) ELSE 1

RECURSIVE SumLengths(_, _)
SumLengths(cat, ids) ==
    IF ids = <<>> THEN 0
    ELSE categories[cat][Head(ids)].length + SumLengths(cat, Tail(ids))

DeclaredIds(data) ==
    LET idx == DeclaredIndexes(data, 1)
    IN [i \in 1..Len(idx) |-> mapFieldIndexToId(idx[i])]

\* a record whose FSPEC is complete, announces only fixed-length fields of
\* the category's catalogue, and carries exactly their payloads
WellFormedRecord(cat, data) ==
    /\ cat \in DOMAIN categories
    /\ Len(data) >= 1
    /\ data[DeclaredFspecLength(data, 1)] % 2 = 0
    /\ \A i \in 1..Len(DeclaredIds(data)) :
          /\ DeclaredIds(data)[i] \in DOMAIN categories[cat]
          /\ categories[cat][DeclaredIds(data)[i]].type = "FIXED"
    /\ Len(data) = DeclaredFspecLength(data, 1) + SumLengths(cat, DeclaredIds(data))

\* C8: in both FSPEC readers the k-th field (k = 1..7) of the first octet is
\* marked present if and only if bit (8-k) of that octet is set; the
\* continuation bit is never a presence bit and bit 7 is never ignored.
C8_FspecBitPositions ==
    /\ dResult.kind = "ok" =>
          \A k \in 1..7 :
              InSeq(mapFieldIndexToId(k), dResult.presentFields) <=> BitSet(dData[1], 8 - k)
    /\ (dFieldSpec.kind = "ok" /\ Len(dData) >= 1) =>
          \A k \in 1..7 :
              InSeq(mapBitToFieldId(k), dFieldSpec.fields) <=> BitSet(dData[1], 8 - k)

\* C9: for a well-formed record decodeMessage returns exactly one entry for
\* each presence bit that is set, in catalogue order, and no other entry.
C9_ExactlyDeclaredFields ==
    (dResult.kind # "none" /\ WellFormedRecord(dCategory, dData)) =>
        /\ dResult.kind = "ok"
        /\ FieldIds(dResult.fields) = DeclaredIds(dData)

\* C10: every field registered in the catalogue of the category being
\* decoded is selected by some presence-bit position.
C10_CatalogueFieldsSelectable ==
    dResult.kind = "ok" =>
        \A f \in DOMAIN categories[dCategory] :
            \E index \in DOMAIN fieldMap : mapFieldIndexToId(index) = f

\* C11: decodeMessage on a record whose buffer ends before the declared
\* length of a present field fails with an error returned to the caller; it
\* does not return a result as if decoding had succeeded.
C11_TruncationIsAnError ==
    dResult.kind = "ok" => dResult.failed = <<>>

C13_UnknownFieldAdvancesOne ==
    dResult.kind = "ok" =>
        dResult.offset = dResult.offsets[1] + SumLengths(dCategory, FieldIds(dResult.fields))
                           + Len(dResult.failed) + Len(dResult.unknown)

\* C14: decodeMessage called with a category that has no registered field
\* catalogue fails with an unsupported-category error and decodes nothing.
C14_UnsupportedCategory ==
    (dResult.kind # "none" /\ dCategory \notin {48, 62}) =>
        /\ dResult.kind = "error"
        /\ dResult.error = "Unsupported ASTERIX category"
        /\ dResult.fields = <<>>

\* decodeMessage was called with category 1 on a buffer that category 48
\* would decode a field from
C14_Witness ==
    /\ dResult.kind = "error"
    /\ dCategory = 1
    /\ decodeMessage(48, dData).fields # <<>>

\* ========================================================================
\* ConflictDetectionService (part_010)
\* ========================================================================
\* Latitudes and longitudes are in units of 1e-5 degree, altitudes in feet,
\* velocities in m/s, distances in hundredths of a nautical mile, times in
\* seconds.  Separations are compared by their squares.

separationStandards ==
    [horizontalSeparation |-> 300, verticalSeparation |-> 1000, timeHorizon |-> 300]

Squared(n) == n * n

\* the lastUpdate of an aircraft that holds no Date (a string left by a JSON
\* round trip, or nothing): ac.lastUpdate.getTime() throws a TypeError
NotADate == -1000000

filterThrows(aircraft) == \E i \in 1..Len(aircraft) : aircraft[i].lastUpdate = NotADate

\* age < 30000 ms and a positive altitude
filterActiveAircraft(aircraft, nowT) ==
    SelectSeq(aircraft, LAMBDA ac : (nowT - ac.lastUpdate) * 1000 < 30000 /\ ac.altitude > 0)

\* one position every 10 s from t = 0 to the time horizon, stamped from the
\* aircraft's own lastUpdate.  y * t / 111320 degrees is y * t * 12500 / 13915
\* units; the traffic modelled flies along a meridian (x = 0).
predictedPosition(aircraft, t) ==
    [latitude  |-> aircraft.currentPosition.latitude
                     + ((aircraft.velocity.y * t * 12500) \div 13915),
     longitude |-> CASE aircraft.velocity.x = 0 -> aircraft.currentPosition.longitude,
     altitude  |-> aircraft.currentPosition.altitude
                     + ((aircraft.velocity.z * t * 328084) \div 100000),
     timestamp |-> aircraft.lastUpdate + t]

predictTrajectory(aircraft) ==
    LET steps == (separationStandards.timeHorizon \div 10) + 1
    IN  [aircraft           |-> aircraft,
         predictedPositions |-> [k \in 1..steps |-> predictedPosition(aircraft, (k - 1) * 10)],
         timeStamps         |-> [k \in 1..steps |-> aircraft.lastUpdate + (k - 1) * 10]]

\* the age of the first time stamp, whatever the aircraft handed in
isTrajectoryValid(trajectory, aircraft, nowT) ==
    (nowT - trajectory.timeStamps[1]) * 1000 < 30000

RECURSIVE generateTrajectoryLoop(_, _, _, _, _)
generateTrajectoryLoop(aircraft, i, predictions, cache, nowT) ==
    IF i > Len(aircraft) THEN [predictions |-> predictions, cache |-> cache]
    ELSE LET ac == aircraft[i]
         IN  IF MapHas(cache, ac.callsign)
                  /\ isTrajectoryValid(MapGet(cache, ac.callsign), ac, nowT)
             THEN generateTrajectoryLoop(aircraft, i + 1,
                      MapSet(predictions, ac.callsign, MapGet(cache, ac.callsign)),
                      cache, nowT)
             ELSE LET prediction == predictTrajectory(ac)
                  IN  generateTrajectoryLoop(aircraft, i + 1,
                          MapSet(predictions, ac.callsign, prediction),
                          MapSet(cache, ac.callsign, prediction), nowT)

generateTrajectoryPredictions(aircraft, cache, nowT) ==
    generateTrajectoryLoop(aircraft, 1, <<>>, cache, nowT)

\* the great-circle distance of two points of one meridian:
\* 3440.065 * pi / 180 = 60.04 NM per degree
calculateHorizontalDistance(pos1, pos2) ==
    CASE pos1.longitude = pos2.longitude ->
        (Abs(pos2.latitude - pos1.latitude) * 6004) \div 100000

\* the square of sqrt(horizontalSep^2 + (verticalSep / 6076.12)^2)
totalSeparationSquared(pos1, pos2) ==
    Squared(calculateHorizontalDistance(pos1, pos2))
        + Squared((Abs(pos1.altitude - pos2.altitude) * 100) \div 6076)

Min(a, b) == IF a < b THEN a ELSE b

\* the last sample of least separation: the scan replaces its best on a tie
RECURSIVE closestApproachLast(_, _, _, _)
closestApproachLast(trajectory1, trajectory2, i, best) ==
    IF i > Min(Len(trajectory1.predictedPositions), Len(trajectory2.predictedPositions))
    THEN best
    ELSE LET sep == totalSeparationSquared(trajectory1.predictedPositions[i],
                                           trajectory2.predictedPositions[i])
         IN  IF best = None \/ sep <= best[1].minSeparation
             THEN closestApproachLast(trajectory1, trajectory2, i + 1,
                      Some([minSeparation |-> sep, index |-> i]))
             ELSE closestApproachLast(trajectory1, trajectory2, i + 1, best)

\* the first sample of least separation, None for empty trajectories
RECURSIVE closestApproach(_, _, _, _)
closestApproach(trajectory1, trajectory2, i, best) ==
    IF i > Min(Len(trajectory1.predictedPositions), Len(trajectory2.predictedPositions))
    THEN best
    ELSE LET sep == totalSeparationSquared(trajectory1.predictedPositions[i],
                                           trajectory2.predictedPositions[i])
         IN  IF best = None \/ sep < best[1].minSeparation
             THEN closestApproach(trajectory1, trajectory2, i + 1,
                      Some([minSeparation |-> sep, index |-> i]))
             ELSE closestApproach(trajectory1, trajectory2, i + 1, best)

determineConflictType(aircraft1, aircraft2, pos1, pos2) ==
    IF Abs(pos1.altitude - pos2.altitude) < 500 THEN "SEPARATION_VIOLATION"
    ELSE IF pos1.altitude < 1000 \/ pos2.altitude < 1000 THEN "GROUND_CONFLICT"
    ELSE "ALTITUDE_CONFLICT"

\* severity buckets whose first test takes either threshold for both
calculateSeverityEither(separation, timeToConflict) ==
    IF separation < Squared(100) \/ timeToConflict < 60 THEN "CRITICAL"
    ELSE IF separation < Squared(200) /\ timeToConflict < 120 THEN "HIGH"
    ELSE IF separation < Squared(300) /\ timeToConflict < 180 THEN "MEDIUM"
    ELSE "LOW"

\* separation is the squared separation
calculateSeverity(separation, timeToConflict) ==
    IF separation < Squared(100) /\ timeToConflict < 60 THEN "CRITICAL"
    ELSE IF separation < Squared(200) /\ timeToConflict < 120 THEN "HIGH"
    ELSE IF separation < Squared(300) /\ timeToConflict < 180 THEN "MEDIUM"
    ELSE "LOW"

\* Date.now() and the random suffix of a conflict id
conflictId(nowT, suffix) == [time |-> nowT, suffix |-> suffix]

\* None when no conflict is reported, else the new record
detectPairwiseConflict(aircraft1, aircraft2, predictions, nowT, suffix) ==
    IF ~MapHas(predictions, aircraft1.callsign) \/ ~MapHas(predictions, aircraft2.callsign)
    THEN None
    ELSE LET trajectory1 == MapGet(predictions, aircraft1.callsign)
             trajectory2 == MapGet(predictions, aircraft2.callsign)
             closest == closestApproach(trajectory1, trajectory2, 1, None)
         IN  IF closest = None
                  \/ ~(closest[1].minSeparation
                         < Squared(separationStandards.horizontalSeparation))
             THEN None
             ELSE LET i == closest[1].index
                      timeToConflict == trajectory1.timeStamps[i] - nowT
                  IN  IF timeToConflict > 0
                           /\ timeToConflict <= separationStandards.timeHorizon
                      THEN Some([id               |-> conflictId(nowT, suffix),
                                 aircraftInvolved |-> <<aircraft1, aircraft2>>,
                                 conflictType     |-> determineConflictType(
                                                         aircraft1, aircraft2,
                                                         trajectory1.predictedPositions[i],
                                                         trajectory2.predictedPositions[i]),
                                 timeToConflict   |-> timeToConflict,
                                 severity         |-> calculateSeverity(
                                                         closest[1].minSeparation,
                                                         timeToConflict),
                                 resolutionOptions |-> <<>>,
                                 status           |-> "DETECTED",
                                 detectedAt       |-> nowT])
                      ELSE None

\* the loop over the pairs i < j; the k-th conflict found takes suffixes[k]
RECURSIVE detectPairsLoop(_, _, _, _, _, _, _)
detectPairsLoop(aircraft, i, j, predictions, nowT, suffixes, detected) ==
    IF i > Len(aircraft) THEN detected
    ELSE IF j > Len(aircraft)
    THEN detectPairsLoop(aircraft, i + 1, i + 2, predictions, nowT, suffixes, detected)
    ELSE LET conflict == detectPairwiseConflict(aircraft[i], aircraft[j], predictions, nowT,
                                                suffixes[Len(detected) + 1])
         IN  detectPairsLoop(aircraft, i, j + 1, predictions, nowT, suffixes,
                             IF conflict = None THEN detected
                             ELSE Append(detected, conflict[1]))

\* push, delete, then keep the records detected in the last 24 hours
moveConflictToHistory(active, history, conflictId_, nowT) ==
    IF MapHas(active, conflictId_)
    THEN [active  |-> MapDelete(active, conflictId_),
          history |-> SelectSeq(Append(history, MapGet(active, conflictId_)),
                                LAMBDA c : c.detectedAt >= nowT - 24 * 60 * 60)]
    ELSE [active |-> active, history |-> history]

\* records whose id is not among the new ones are marked RESOLVED in place
\* and moved to the history
RECURSIVE resolveLoop(_, _, _, _, _, _)
resolveLoop(entries, i, active, history, currentConflictIds, nowT) ==
    IF i > Len(entries) THEN [active |-> active, history |-> history]
    ELSE IF entries[i].key \in currentConflictIds
    THEN resolveLoop(entries, i + 1, active, history, currentConflictIds, nowT)
    ELSE LET marked == MapSet(active, entries[i].key,
                              [entries[i].value EXCEPT !.status = "RESOLVED"])
             moved == moveConflictToHistory(marked, history, entries[i].key, nowT)
         IN  resolveLoop(entries, i + 1, moved.active, moved.history,
                         currentConflictIds, nowT)

\* the new conflicts never stored
setAllSkipped(active, newConflicts, i) == active

RECURSIVE setAll(_, _, _)
setAll(active, newConflicts, i) ==
    IF i > Len(newConflicts) THEN active
    ELSE setAll(MapSet(active, newConflicts[i].id, newConflicts[i]), newConflicts, i + 1)

updateActiveConflicts(active, history, newConflicts, nowT) ==
    LET currentConflictIds == {newConflicts[i].id : i \in 1..Len(newConflicts)}
        resolved == resolveLoop(active, 1, active, history, currentConflictIds, nowT)
    IN  [active  |-> setAll(resolved.active, newConflicts, 1),
         history |-> resolved.history]

\* the whole of detectConflicts: what it returns and what it leaves behind
detectConflicts(aircraft, active, history, cache, nowT, suffixes) ==
    IF filterThrows(aircraft)
    THEN [threw |-> TRUE, detected |-> <<>>, returned |-> <<>>, notified |-> None,
          active |-> active, history |-> history, cache |-> cache]
    ELSE
    LET activeAircraft == filterActiveAircraft(aircraft, nowT)
    IN  IF Len(activeAircraft) < 2
        THEN [threw |-> FALSE, detected |-> <<>>, returned |-> <<>>, notified |-> None,
              active |-> active, history |-> history, cache |-> cache]
        ELSE LET trajectories == generateTrajectoryPredictions(activeAircraft, cache, nowT)
                 detected == detectPairsLoop(activeAircraft, 1, 2, trajectories.predictions,
                                             nowT, suffixes, <<>>)
                 updated == updateActiveConflicts(active, history, detected, nowT)
             IN  [threw    |-> FALSE,
                  detected |-> detected,
                  returned |-> MapValues(updated.active),
                  notified |-> Some(MapValues(updated.active)),
                  active   |-> updated.active,
                  history  |-> updated.history,
                  cache    |-> trajectories.cache]

\* notifySubscribers(conflicts) as detectConflicts calls it: every callback
\* is handed the list; with no callback, or on the early return that skips
\* the call, nothing is delivered
notifySubscribers(callbacks, conflicts, before, nowT) ==
    IF callbacks > 0 /\ conflicts # None
    THEN [kind |-> "notified", at |-> nowT, conflicts |-> conflicts[1]]
    ELSE before

\* updateConflictStatus: throws for an unknown id, else stores a copy with
\* the new status and moves it to the history when that status is RESOLVED
updateConflictStatus(active, history, conflictId_, status, nowT) ==
    IF ~MapHas(active, conflictId_)
    THEN [threw |-> TRUE, active |-> active, history |-> history]
    ELSE LET updatedConflict == [MapGet(active, conflictId_) EXCEPT !.status = status]
             stored == MapSet(active, conflictId_, updatedConflict)
         IN  IF status = "RESOLVED"
             THEN LET moved == moveConflictToHistory(stored, history, conflictId_, nowT)
                  IN  [threw |-> FALSE, active |-> moved.active, history |-> moved.history]
             ELSE [threw |-> FALSE, active |-> stored, history |-> history]

\* the end of analyzeConflict: the record handed in, with the resolutions
\* appended, is stored under its id whatever the map holds by then
analyzeConflict(active, conflict, aiResolutions) ==
    LET enhancedConflict ==
            [conflict EXCEPT !.resolutionOptions = conflict.resolutionOptions \o aiResolutions]
    IN  [returned |-> enhancedConflict,
         active   |-> MapSet(active, conflict.id, enhancedConflict)]

\* ------------------------------------------------------------------------
\* SpecConflict: the conflict life cycle
\* ------------------------------------------------------------------------
MaxConflictTime == 30

MaxHistory == 1

MaxActive == 2

MaxPending == 1

MaxResolutions == 1

\* the values Math.random() contributes to an id
ConflictSuffixes == {1, 2}

\* the statuses a controller sets
ConflictStatuses == {"ACKNOWLEDGED", "RESOLVING", "RESOLVED"}

\* what generateConflictResolutions gives back, here its fallback
AiResolutions == {<<"fallback-001">>}

\* Traffic along the meridian 74 W at 5000 ft.  AAL1 flies north and UAL2,
\* 20 NM ahead, flies south towards it or north away from it; DAL3 hovers
\* 120 NM to the north.
TrafficAircraft(callsign, latitude, vy, lastUpdate) ==
    [callsign        |-> callsign,
     currentPosition |-> [latitude |-> latitude, longitude |-> -7400000, altitude |-> 5000],
     velocity        |-> [x |-> 0, y |-> vy, z |-> 0],
     altitude        |-> 5000,
     lastUpdate      |-> lastUpdate]

AAL1(lastUpdate) == TrafficAircraft("AAL1", 4070000, 100, lastUpdate)

\* AAL1 one model tick further along its track
AAL1Moved(lastUpdate) == TrafficAircraft("AAL1", 4071347, 100, lastUpdate)

UAL2(lastUpdate) == TrafficAircraft("UAL2", 4103300, -100, lastUpdate)

UAL2Away(lastUpdate) == TrafficAircraft("UAL2", 4103300, 100, lastUpdate)

DAL3(lastUpdate) == TrafficAircraft("DAL3", 4270000, 0, lastUpdate)

\* the aircraft lists a cycle may be handed at time t
ConflictInputs(t) ==
    { <<>>,
      <<AAL1(t)>>,
      <<AAL1(t), UAL2(t)>>,
      <<AAL1(t), UAL2Away(t)>>,
      <<AAL1(t), UAL2(t), DAL3(t)>>,
      <<AAL1(t - 30), UAL2(t)>> }

\* room for one suffix per pair of the input
SuffixSlots(aircraft) == 1..(Len(aircraft) * Len(aircraft) + 1)

KeysOf(map) == {map[i].key : i \in 1..Len(map)}

\* A suspended analyzeConflict may hold the very object the map holds.  The
\* cycle that resolves that record marks it RESOLVED in place; a step that
\* stores another object under its id leaves the held one behind.
pendingAfter(pending, resolvedIds, replacedIds) ==
    [k \in 1..Len(pending) |->
        LET p == pending[k]
        IN  IF p.shared /\ p.conflict.id \in resolvedIds
            THEN [conflict |-> [p.conflict EXCEPT !.status = "RESOLVED"], shared |-> FALSE]
            ELSE IF p.shared /\ p.conflict.id \in replacedIds
            THEN [p EXCEPT !.shared = FALSE]
            ELSE p]

DetectConflicts(aircraft, suffixes) ==
    \E r \in {detectConflicts(aircraft, activeConflicts, conflictHistory, trajectoryCache,
                              now, suffixes)} :
    LET ran == IF r.threw THEN FALSE ELSE Len(filterActiveAircraft(aircraft, now)) >= 2
        newIds == {r.detected[i].id : i \in 1..Len(r.detected)}
    IN  /\ Len(r.history) <= MaxHistory
        /\ activeConflicts' = r.active
        /\ conflictHistory' = r.history
        /\ trajectoryCache' = r.cache
        /\ pendingAnalyses' =
               IF ran
               THEN pendingAfter(pendingAnalyses, KeysOf(activeConflicts) \ newIds, newIds)
               ELSE pendingAnalyses
        /\ lastCycle' = [kind |-> "detectConflicts", at |-> now, detected |-> r.detected,
                         aircraft |-> aircraft, threw |-> r.threw]
        /\ cReturned' = IF r.threw THEN [kind |-> "threw"]
                        ELSE [kind |-> "detectConflicts", conflicts |-> r.returned]
        /\ delivered' = notifySubscribers(subscribers, r.notified, delivered, now)
        /\ UNCHANGED <<now, isRunning, detectionTimers, detectionInterval, subscribers>>
        /\ UNCHANGED nonConflictVars

\* how many conflicts a cycle over this input finds
detectedCount(aircraft) ==
    Len(detectConflicts(aircraft, activeConflicts, conflictHistory, trajectoryCache, now,
                        [k \in SuffixSlots(aircraft) |-> 1]).detected)

\* cycles are paced by the caller's timer: one at most in an instant of the
\* model's clock
DetectCycleOver(inputs) ==
    /\ IF lastCycle = NoResult THEN TRUE ELSE lastCycle.at < now
    /\ \E aircraft \in inputs :
        \E n \in {detectedCount(aircraft)} :
            \E drawn \in [1..n -> ConflictSuffixes] :
                DetectConflicts(aircraft,
                    [k \in SuffixSlots(aircraft) |-> IF k <= n THEN drawn[k] ELSE 1])

DetectCycle == DetectCycleOver(ConflictInputs(now))

\* every id a caller can have seen, and one that never existed
KnownIds ==
    KeysOf(activeConflicts) \cup {conflictHistory[i].id : i \in 1..Len(conflictHistory)}

UnknownId == conflictId(-1, 0)

\* one call of updateConflictStatus; traced says whether the caller keeps the
\* arguments of the call next to its outcome
UpdateConflictStatusCall(traced) ==
    \E id \in KnownIds \cup {UnknownId}, status \in ConflictStatuses :
        LET r == updateConflictStatus(activeConflicts, conflictHistory, id, status, now)
        IN  /\ Len(r.history) <= MaxHistory
            /\ activeConflicts' = r.active
            /\ conflictHistory' = r.history
            /\ pendingAnalyses' =
                   IF r.threw THEN pendingAnalyses
                   ELSE pendingAfter(pendingAnalyses, {}, {id})
            /\ cReturned' =
                   IF traced
                   THEN [kind |-> "updateConflictStatus", conflictId |-> id,
                         status |-> status, threw |-> r.threw]
                   ELSE IF r.threw THEN [kind |-> "threw"] ELSE NoResult
            /\ UNCHANGED <<trajectoryCache, lastCycle, now>>
            /\ UNCHANGED serviceVars
            /\ UNCHANGED nonConflictVars

UpdateConflictStatus == UpdateConflictStatusCall(FALSE)

UpdateConflictStatusTraced == UpdateConflictStatusCall(TRUE)

\* analyzeConflict is entered with a record of the active set, as
\* detectConflicts and getActiveConflicts hand them out, and suspends
AnalyzeConflictStart ==
    /\ Len(pendingAnalyses) < MaxPending
    /\ \E i \in 1..Len(activeConflicts) :
            /\ Len(activeConflicts[i].value.resolutionOptions) < MaxResolutions
            /\ pendingAnalyses' = Append(pendingAnalyses,
                   [conflict |-> activeConflicts[i].value, shared |-> TRUE])
    /\ cReturned' = NoResult
    /\ UNCHANGED <<activeConflicts, conflictHistory, trajectoryCache, lastCycle, now>>
    /\ UNCHANGED serviceVars
    /\ UNCHANGED nonConflictVars

\* the awaited resolutions arrive and analyzeConflict runs to its end
AnalyzeConflictFinish ==
    \E k \in 1..Len(pendingAnalyses), aiResolutions \in AiResolutions :
        LET r == analyzeConflict(activeConflicts, pendingAnalyses[k].conflict, aiResolutions)
            others == [j \in 1..(Len(pendingAnalyses) - 1) |->
                          IF j < k THEN pendingAnalyses[j] ELSE pendingAnalyses[j + 1]]
        IN  /\ Len(r.active) <= MaxActive
            /\ activeConflicts' = r.active
            /\ pendingAnalyses' = pendingAfter(others, {}, {pendingAnalyses[k].conflict.id})
            /\ cReturned' = NoResult
            /\ UNCHANGED <<conflictHistory, trajectoryCache, lastCycle, now>>
            /\ UNCHANGED serviceVars
            /\ UNCHANGED nonConflictVars

ConflictTick ==
    /\ now + TickSeconds <= MaxConflictTime
    /\ now' = now + TickSeconds
    /\ cReturned' = NoResult
    /\ UNCHANGED <<activeConflicts, conflictHistory, trajectoryCache, pendingAnalyses,
                   lastCycle>>
    /\ UNCHANGED serviceVars
    /\ UNCHANGED nonConflictVars

ConflictNext ==
    \/ DetectCycle
    \/ UpdateConflictStatus
    \/ AnalyzeConflictStart
    \/ AnalyzeConflictFinish
    \/ ConflictTick

ConflictSpecInit == ConflictInit /\ RadarInit /\ DecoderIdle /\ SeverityIdle

SpecConflict == ConflictSpecInit /\ [][ConflictNext]_vars

----------------------------------------------------------------------------
\* updateConflictStatus on records of any age.

\* 24 * 60 * 60 * 1000 ms, the retention of moveConflictToHistory
RetentionSeconds == 24 * 60 * 60

\* more than the retention passes without a call
RetentionPasses ==
    /\ now <= MaxConflictTime
    /\ now' = now + RetentionSeconds + TickSeconds
    /\ cReturned' = NoResult
    /\ UNCHANGED <<activeConflicts, conflictHistory, trajectoryCache, pendingAnalyses,
                   lastCycle>>
    /\ UNCHANGED serviceVars
    /\ UNCHANGED nonConflictVars

StatusNext ==
    \/ DetectCycle
    \/ UpdateConflictStatusTraced
    \/ ConflictTick
    \/ RetentionPasses

SpecStatus == ConflictSpecInit /\ [][StatusNext]_vars

----------------------------------------------------------------------------
\* analyzeConflict with the reply of the completion service behind
\* OpenAIService.generateConflictResolutions.

\* a JavaScript value by its type; items holds the elements of an array and
\* the characters of a string
JsValue(type, items) == [type |-> type, items |-> items]

FallbackResolutions == JsValue("array", <<"fallback-001">>)

\* the arguments of the function call as JSON.parse sees them
InvalidJson == [json |-> "invalid", resolutions |-> JsValue("undefined", <<>>)]

JsonNull == [json |-> "null", resolutions |-> JsValue("undefined", <<>>)]

JsonObject(resolutions) == [json |-> "object", resolutions |-> resolutions]

Reply(functionCall) == [kind |-> "response", functionCall |-> functionCall]

\* what executeWithRetry may give: a rejection (an error of the client, or
\* the last timeout once the retries are spent) or a response
Responses ==
    { [kind |-> "throws", functionCall |-> None],
      [kind |-> "timeout", functionCall |-> None],
      Reply(None),
      Reply(Some(InvalidJson)),
      Reply(Some(JsonNull)),
      Reply(Some(JsonObject(JsValue("undefined", <<>>)))),
      Reply(Some(JsonObject(JsValue("null", <<>>)))),
      Reply(Some(JsonObject(JsValue("number", <<>>)))),
      Reply(Some(JsonObject(JsValue("object", <<>>)))),
      Reply(Some(JsonObject(JsValue("string", <<"n">>)))),
      Reply(Some(JsonObject(JsValue("array", <<"{}">>)))),
      Reply(Some(JsonObject(JsValue("array", <<"res-001">>)))) }

\* every throw inside the try ends in the fallback; a parsed resolutions
\* that has a length is returned as it is
generateConflictResolutions(response) ==
    IF response.kind # "response" THEN FallbackResolutions
    ELSE IF response.functionCall = None THEN FallbackResolutions
    ELSE LET arguments == response.functionCall[1]
         IN  IF arguments.json # "object" THEN FallbackResolutions
             ELSE IF arguments.resolutions.type \in {"undefined", "null"}
             THEN FallbackResolutions
             ELSE arguments.resolutions

\* [...value]: None for the TypeError of a value that is not iterable
spread(value) ==
    IF value.type \in {"array", "string"} THEN Some(value.items) ELSE None

\* the reply arrives and analyzeConflict runs to its end, or rejects with
\* what its catch rethrows
AnalyzeConflictReply ==
    \E k \in 1..Len(pendingAnalyses), response \in Responses :
        LET aiResolutions == generateConflictResolutions(response)
            others == [j \in 1..(Len(pendingAnalyses) - 1) |->
                          IF j < k THEN pendingAnalyses[j] ELSE pendingAnalyses[j + 1]]
        IN  IF spread(aiResolutions) = None
            THEN /\ pendingAnalyses' = others
                 /\ cReturned' = [kind |-> "analyzeConflict", response |-> response,
                                  aiResolutions |-> aiResolutions, threw |-> TRUE]
                 /\ UNCHANGED <<activeConflicts, conflictHistory, trajectoryCache,
                                lastCycle, now>>
                 /\ UNCHANGED serviceVars
                 /\ UNCHANGED nonConflictVars
            ELSE \E r \in {analyzeConflict(activeConflicts, pendingAnalyses[k].conflict,
                                            spread(aiResolutions)[1])} :
                 /\ Len(r.active) <= MaxActive
                 /\ activeConflicts' = r.active
                 /\ pendingAnalyses' =
                        pendingAfter(others, {}, {pendingAnalyses[k].conflict.id})
                 /\ cReturned' = [kind |-> "analyzeConflict", response |-> response,
                                  aiResolutions |-> aiResolutions, threw |-> FALSE]
                 /\ UNCHANGED <<conflictHistory, trajectoryCache, lastCycle, now>>
                 /\ UNCHANGED serviceVars
                 /\ UNCHANGED nonConflictVars

AnalyzeNext ==
    \/ DetectCycle
    \/ AnalyzeConflictStart
    \/ AnalyzeConflictReply
    \/ ConflictTick

SpecAnalyze == ConflictSpecInit /\ [][AnalyzeNext]_vars

----------------------------------------------------------------------------
\* The life cycle of the conflict service: initialize, the detection timer,
\* subscribers, cycles and shutdown.

MaxDetectionTimers == 2

MaxSubscribers == 1

\* alerts.conflictDetectionInterval || 5000, in seconds
conflictDetectionInterval == 5

\* startConflictDetection(): a new interval whose handle replaces the one held
startConflictDetection(timers, nowT) ==
    LET handle == Len(timers) + 1 + Len(SelectSeq(timers, LAMBDA t : t.id > Len(timers)))
    IN  [timers |-> Append(timers, [id |-> handle, next |-> nowT + conflictDetectionInterval]),
         handle |-> handle]

\* clearInterval(handle)
clearInterval(timers, handle) == SelectSeq(timers, LAMBDA t : t.id # handle)

\* initialize(), from the return of openAIService.initialize() on
ConflictInitialize ==
    /\ Len(detectionTimers) < MaxDetectionTimers
    /\ detectionInterval < MaxDetectionTimers
    /\ \E started \in {startConflictDetection(detectionTimers, now)} :
          /\ detectionTimers' = started.timers
          /\ detectionInterval' = started.handle
    /\ isRunning' = TRUE
    /\ cReturned' = [kind |-> "initialize"]
    /\ UNCHANGED <<now, activeConflicts, conflictHistory, trajectoryCache, pendingAnalyses,
                   lastCycle, subscribers, delivered>>
    /\ UNCHANGED nonConflictVars

\* shutdown(): the history is left as it is
ConflictShutdown ==
    /\ isRunning' = FALSE
    /\ detectionTimers' = IF detectionInterval # 0
                          THEN clearInterval(detectionTimers, detectionInterval)
                          ELSE detectionTimers
    /\ activeConflicts' = <<>>
    /\ trajectoryCache' = <<>>
    /\ subscribers' = 0
    /\ cReturned' = [kind |-> "shutdown"]
    /\ UNCHANGED <<now, conflictHistory, pendingAnalyses, lastCycle, detectionInterval,
                   delivered>>
    /\ UNCHANGED nonConflictVars

\* subscribeToConflicts(callback)
SubscribeToConflicts ==
    /\ subscribers < MaxSubscribers
    /\ subscribers' = subscribers + 1
    /\ cReturned' = [kind |-> "subscribe"]
    /\ UNCHANGED <<now, activeConflicts, conflictHistory, trajectoryCache, pendingAnalyses,
                   lastCycle, isRunning, detectionTimers, detectionInterval, delivered>>
    /\ UNCHANGED nonConflictVars

\* the callback of the interval: while running it emits
\* 'conflict:request_aircraft_data', an event nothing listens to
DetectionTimer ==
    /\ \E i \in 1..Len(detectionTimers) :
          /\ detectionTimers[i].next <= now
          /\ detectionTimers' =
                 [detectionTimers EXCEPT ![i].next = now + conflictDetectionInterval]
    /\ cReturned' = [kind |-> "timer", emitted |-> isRunning]
    /\ UNCHANGED <<now, activeConflicts, conflictHistory, trajectoryCache, pendingAnalyses,
                   lastCycle, isRunning, detectionInterval, subscribers, delivered>>
    /\ UNCHANGED nonConflictVars

ServiceNext ==
    \/ ConflictInitialize
    \/ ConflictShutdown
    \/ SubscribeToConflicts
    \/ DetectionTimer
    \/ DetectCycle
    \/ ConflictTick

SpecService == ConflictSpecInit /\ [][ServiceNext]_vars

----------------------------------------------------------------------------
\* A detection cycle suspended at its awaits while processRadarData stores
\* new Aircraft objects.  Aircraft are held by identity: the cycle keeps the
\* references it was handed and reads the objects behind them at every step.
\* The objects an Aircraft points to (position, velocity, Date) are written
\* nowhere after their creation and are kept as values.

MaxObjects == 5

\* what convertTracksToAircraft makes of the live tracks at time t
RadarSnapshots(t) ==
    { <<AAL1(t), UAL2(t)>>,
      <<AAL1Moved(t), UAL2Away(t)>>,
      <<AAL1(t), UAL2(t), DAL3(t)>> }

\* one object of the list handed in place of the one stored under its callsign
storeAircraftInPlace(objs, refs, aircraftObj) ==
    IF MapHas(refs, aircraftObj.callsign)
    THEN [objects |-> [objs EXCEPT ![MapGet(refs, aircraftObj.callsign)] = aircraftObj],
          refs    |-> refs]
    ELSE [objects |-> Append(objs, aircraftObj),
          refs    |-> MapSet(refs, aircraftObj.callsign, Len(objs) + 1)]

\* const aircraftObj = {...}; aircraftMap.set(aircraftObj.callsign, aircraftObj)
storeAircraft(objs, refs, aircraftObj) ==
    [objects |-> Append(objs, aircraftObj),
     refs    |-> MapSet(refs, aircraftObj.callsign, Len(objs) + 1)]

RECURSIVE storeAircraftLoop(_, _, _, _)
storeAircraftLoop(objs, refs, aircraft, k) ==
    IF k > Len(aircraft) THEN [objects |-> objs, refs |-> refs]
    ELSE LET stored == storeAircraft(objs, refs, aircraft[k])
         IN  storeAircraftLoop(stored.objects, stored.refs, aircraft, k + 1)

\* the conversion that ends processRadarData, between two steps of a cycle
\* or outside one
StoreAircraft ==
    /\ \E aircraft \in RadarSnapshots(now) :
        \E stored \in {storeAircraftLoop(objects, aircraftRefs, aircraft, 1)} :
            /\ Len(stored.objects) <= MaxObjects
            /\ objects' = stored.objects
            /\ aircraftRefs' = stored.refs
    /\ cycle' = [cycle EXCEPT !.interleaved = (@ \/ cycle.pc = "pairs")]
    /\ UNCHANGED <<sevInput, sevResult>>
    /\ UNCHANGED clientVars
    /\ UNCHANGED <<decoderVars, radarVars, conflictVars, serviceVars>>

\* the objects behind a list of references
Deref(ids) == [k \in 1..Len(ids) |-> objects[ids[k]]]

\* detectConflicts(getAircraftPositions()) up to its first await: the filter
\* and the trajectory predictions
CycleStart ==
    /\ cycle.pc # "pairs"
    /\ IF cycle.pc = "idle" THEN TRUE ELSE cycle.at < now
    /\ aircraftRefs # <<>>
    /\ LET input == SelectSeq(MapValues(aircraftRefs),
                        LAMBDA id : filterActiveAircraft(<<objects[id]>>, now) # <<>>)
       IN  IF Len(input) < 2
           THEN /\ cycle' = [IdleCycle EXCEPT !.pc = "done", !.at = now]
                /\ UNCHANGED trajectoryCache
           ELSE \E trajectories \in
                     {generateTrajectoryPredictions(Deref(input), trajectoryCache, now)} :
                /\ cycle' = [IdleCycle EXCEPT !.pc = "pairs", !.at = now,
                                              !.input = input,
                                              !.snapshot = Deref(input),
                                              !.predictions = trajectories.predictions]
                /\ trajectoryCache' = trajectories.cache
    /\ cReturned' = NoResult
    /\ UNCHANGED <<activeConflicts, conflictHistory, pendingAnalyses, lastCycle, now>>
    /\ UNCHANGED <<objects, aircraftRefs, sevInput, sevResult>>
    /\ UNCHANGED clientVars
    /\ UNCHANGED serviceVars
    /\ UNCHANGED <<decoderVars, isProcessing, isHung, maintenanceTimers, radarTracks,
                   aircraftMap, messagesProcessed, rReturned>>

\* one turn of the pair loop, from one await to the next
CyclePair ==
    /\ cycle.pc = "pairs"
    /\ cycle.i < Len(cycle.input)
    /\ LET aircraft1 == objects[cycle.input[cycle.i]]
           aircraft2 == objects[cycle.input[cycle.j]]
           last == cycle.j = Len(cycle.input)
       IN  \E suffix \in ConflictSuffixes :
           \E conflict \in {detectPairwiseConflict(aircraft1, aircraft2, cycle.predictions,
                                                   now, suffix)} :
              /\ IF conflict = None THEN suffix = 1 ELSE TRUE
              /\ cycle' = [cycle EXCEPT
                     !.i = IF last THEN cycle.i + 1 ELSE cycle.i,
                     !.j = IF last THEN cycle.i + 2 ELSE cycle.j + 1,
                     !.evaluated = Append(@, <<aircraft1, aircraft2>>),
                     !.detected = IF conflict = None THEN @
                                  ELSE Append(@, [conflict |-> conflict[1],
                                                  refs |-> <<cycle.input[cycle.i],
                                                             cycle.input[cycle.j]>>])]
    /\ cReturned' = NoResult
    /\ UNCHANGED <<activeConflicts, conflictHistory, trajectoryCache, pendingAnalyses,
                   lastCycle, now>>
    /\ UNCHANGED <<objects, aircraftRefs, sevInput, sevResult>>
    /\ UNCHANGED clientVars
    /\ UNCHANGED serviceVars
    /\ UNCHANGED <<decoderVars, isProcessing, isHung, maintenanceTimers, radarTracks,
                   aircraftMap, messagesProcessed, rReturned>>

\* the conflicts found, each with the objects its references lead to now
Published(found) ==
    [k \in 1..Len(found) |->
        [found[k].conflict EXCEPT !.aircraftInvolved = Deref(found[k].refs)]]

\* the end of the cycle: updateActiveConflicts and notifySubscribers
CycleFinish ==
    /\ cycle.pc = "pairs"
    /\ cycle.i >= Len(cycle.input)
    /\ \E updated \in {updateActiveConflicts(activeConflicts, conflictHistory,
                                             Published(cycle.detected), now)} :
          /\ Len(updated.history) <= MaxHistory
          /\ activeConflicts' = updated.active
          /\ conflictHistory' = updated.history
          /\ delivered' = notifySubscribers(subscribers, Some(MapValues(updated.active)),
                                            delivered, now)
          /\ cReturned' = [kind |-> "detectConflicts",
                           conflicts |-> MapValues(updated.active)]
    /\ lastCycle' = [kind |-> "detectConflicts", at |-> now,
                     detected |-> Published(cycle.detected),
                     aircraft |-> Deref(cycle.input), threw |-> FALSE]
    /\ cycle' = [cycle EXCEPT !.pc = "done"]
    /\ UNCHANGED <<trajectoryCache, pendingAnalyses, now>>
    /\ UNCHANGED <<isRunning, detectionTimers, detectionInterval, subscribers>>
    /\ UNCHANGED <<objects, aircraftRefs, sevInput, sevResult>>
    /\ UNCHANGED clientVars
    /\ UNCHANGED <<decoderVars, isProcessing, isHung, maintenanceTimers, radarTracks,
                   aircraftMap, messagesProcessed, rReturned>>

\* time passes between cycles, not between the awaits of one
IsolationTick ==
    /\ cycle.pc # "pairs"
    /\ ConflictTick

IsolationNext ==
    \/ StoreAircraft
    \/ CycleStart
    \/ CyclePair
    \/ CycleFinish
    \/ IsolationTick

SpecIsolation == ConflictSpecInit /\ [][IsolationNext]_vars

----------------------------------------------------------------------------
\* The detection cycle alone, over traffic that meets every edge of the
\* pairwise test.

\* hovering 17 NM north of AAL1, which comes within 1 NM of it at the last
\* sample of the horizon
SWA4(lastUpdate) == TrafficAircraft("SWA4", 4098300, 0, lastUpdate)

\* hovering 1.8 NM north of SWA4
JBU5(lastUpdate) == TrafficAircraft("JBU5", 4101300, 0, lastUpdate)

\* a second target that reports the callsign AAL1, where UAL2 flies
AAL1Twin(lastUpdate) == TrafficAircraft("AAL1", 4103300, -100, lastUpdate)

\* an aircraft whose lastUpdate holds no Date
N0DATE == TrafficAircraft("N0DATE", 4270000, 0, NotADate)

DetectInputs(t) ==
    { <<AAL1(t), UAL2(t)>>,
      <<AAL1Moved(t), UAL2(t)>>,
      <<AAL1(t), SWA4(t)>>,
      <<AAL1(t + TickSeconds), SWA4(t + TickSeconds)>>,
      <<SWA4(t), JBU5(t)>>,
      <<AAL1(t), DAL3(t)>>,
      <<AAL1(t), AAL1Twin(t)>>,
      <<AAL1(t - TickSeconds), UAL2(t)>>,
      <<AAL1(t), UAL2(t), N0DATE>> }

DetectTraffic == DetectCycleOver(DetectInputs(now))

DetectNext ==
    \/ DetectTraffic
    \/ ConflictTick

SpecDetect == ConflictSpecInit /\ [][DetectNext]_vars

\* ------------------------------------------------------------------------
\* SpecSeverity: calculateSeverity applied to two inputs
\* ------------------------------------------------------------------------
\* separations in hundredths of a nautical mile and times in seconds, on and
\* next to every threshold
SeveritySeparations == {0, 99, 100, 199, 200, 299, 300}

SeverityTimes == {1, 59, 60, 119, 120, 179, 180, 300}

SeverityInputs == [separation : SeveritySeparations, timeToConflict : SeverityTimes]

SeverityInit ==
    /\ sevInput \in [first : SeverityInputs, second : SeverityInputs]
    /\ sevResult = NoResult

CalculateSeverity ==
    /\ sevResult = NoResult
    /\ sevResult' =
           [kind |-> "calculateSeverity",
            first |-> calculateSeverity(Squared(sevInput.first.separation),
                                        sevInput.first.timeToConflict),
            second |-> calculateSeverity(Squared(sevInput.second.separation),
                                         sevInput.second.timeToConflict)]
    /\ UNCHANGED <<sevInput, decoderVars, radarVars, conflictVars, serviceVars,
                   isolationVars, clientVars>>

SeverityNext == CalculateSeverity

SeveritySpecInit ==
    SeverityInit /\ IsolationIdle /\ ClientInit /\ ConflictInit /\ RadarInit /\ DecoderIdle

SpecSeverity == SeveritySpecInit /\ [][SeverityNext]_vars

SeverityRank(severity) ==
    CASE severity = "LOW" -> 1
      [] severity = "MEDIUM" -> 2
      [] severity = "HIGH" -> 3
      [] severity = "CRITICAL" -> 4

\* C22: calculateSeverity is monotone: an input whose separation and time to
\* conflict are both less than or equal to those of another gets at least
\* the other's severity in the order LOW < MEDIUM < HIGH < CRITICAL; and
\* CRITICAL is given exactly for a separation below 1.0 NM together with a
\* time to conflict below 60 s.
C22_SeverityMonotone ==
    sevResult.kind = "calculateSeverity" =>
        /\ (/\ sevInput.second.separation <= sevInput.first.separation
             /\ sevInput.second.timeToConflict <= sevInput.first.timeToConflict)
            => SeverityRank(sevResult.second) >= SeverityRank(sevResult.first)
        /\ sevResult.first = "CRITICAL"
              <=> (sevInput.first.separation < 100 /\ sevInput.first.timeToConflict < 60)

\* two inputs in order, the closer one CRITICAL and the other one LOW
C22_Witness ==
    /\ sevResult.kind = "calculateSeverity"
    /\ sevInput.second.separation < sevInput.first.separation
    /\ sevInput.second.timeToConflict < sevInput.first.timeToConflict
    /\ sevResult.second = "CRITICAL"
    /\ sevResult.first = "LOW"

PairOf(conflict) ==
    {conflict.aircraftInvolved[i].callsign : i \in 1..Len(conflict.aircraftInvolved)}

ActiveRecords == {activeConflicts[i].value : i \in 1..Len(activeConflicts)}

HistoryRecords == {conflictHistory[i] : i \in 1..Len(conflictHistory)}

DetectedIn(run) == {run.detected[i] : i \in 1..Len(run.detected)}

\* a step that is a detection cycle
IsDetectStep == cReturned'.kind = "detectConflicts"

\* the aircraft the last cycle evaluated, and whether it got as far as the pairs
Evaluated == filterActiveAircraft(lastCycle.aircraft, lastCycle.at)

CycleRan ==
    IF lastCycle = NoResult THEN FALSE
    ELSE IF lastCycle.threw THEN FALSE
    ELSE Len(Evaluated) >= 2

\* the prediction the last cycle used for an aircraft: the cache holds it,
\* reused or stored anew
UsedPrediction(ac) == MapGet(trajectoryCache, ac.callsign)

SampleSeparation(ac1, ac2, k) ==
    totalSeparationSquared(UsedPrediction(ac1).predictedPositions[k],
                           UsedPrediction(ac2).predictedPositions[k])

Samples(ac1, ac2) ==
    1..Min(Len(UsedPrediction(ac1).predictedPositions),
           Len(UsedPrediction(ac2).predictedPositions))

\* the sample of closest approach: the earliest of least separation
CpaSample(ac1, ac2) ==
    CHOOSE k \in Samples(ac1, ac2) :
        /\ \A m \in Samples(ac1, ac2) :
               SampleSeparation(ac1, ac2, k) <= SampleSeparation(ac1, ac2, m)
        /\ \A m \in Samples(ac1, ac2) :
               m < k => SampleSeparation(ac1, ac2, k) < SampleSeparation(ac1, ac2, m)

CpaTime(ac1, ac2) == UsedPrediction(ac1).timeStamps[CpaSample(ac1, ac2)]

ShouldEmit(ac1, ac2) ==
    /\ SampleSeparation(ac1, ac2, CpaSample(ac1, ac2))
           < Squared(separationStandards.horizontalSeparation)
    /\ CpaTime(ac1, ac2) - lastCycle.at > 0
    /\ CpaTime(ac1, ac2) - lastCycle.at <= separationStandards.timeHorizon

EmittedFor(ac1, ac2) ==
    {c \in DetectedIn(lastCycle) : c.aircraftInvolved = <<ac1, ac2>>}

\* C21: a cycle emits a record for a pair exactly when the least combined
\* separation over the aligned samples is under the horizontal standard and
\* the time of closest approach lies after now and within the horizon; the
\* record's timeToConflict is that time minus now, positive and at most the
\* horizon.
C21_EmittedIffCloseWithinHorizon ==
    CycleRan =>
        /\ \A i \in 1..Len(Evaluated) : \A j \in 1..Len(Evaluated) :
               i < j =>
                   /\ (EmittedFor(Evaluated[i], Evaluated[j]) # {})
                          <=> ShouldEmit(Evaluated[i], Evaluated[j])
                   /\ \A c \in EmittedFor(Evaluated[i], Evaluated[j]) :
                          c.timeToConflict
                              = CpaTime(Evaluated[i], Evaluated[j]) - lastCycle.at
        /\ \A c \in DetectedIn(lastCycle) :
               /\ c.timeToConflict > 0
               /\ c.timeToConflict <= separationStandards.timeHorizon

\* a pair emitted at the very horizon, a pair dropped past it, and a pair in
\* violation from the first sample on, dropped as well
C21_Witness ==
    /\ CycleRan
    /\ \E c \in DetectedIn(lastCycle) :
           c.timeToConflict = separationStandards.timeHorizon

C21_WitnessDropped ==
    /\ CycleRan
    /\ lastCycle.detected = <<>>
    /\ SampleSeparation(Evaluated[1], Evaluated[2], CpaSample(Evaluated[1], Evaluated[2]))
           < Squared(separationStandards.horizontalSeparation)
    /\ CpaSample(Evaluated[1], Evaluated[2]) = 1

\* C36: the trajectory a cycle uses for an aircraft is computed from that
\* aircraft's own position and velocity, and two distinct aircraft of one
\* input never share one prediction, also when they carry the same callsign.
C36_OwnTrajectory ==
    CycleRan =>
        \A i \in 1..Len(Evaluated) : \A j \in 1..Len(Evaluated) :
            /\ UsedPrediction(Evaluated[i]).aircraft.currentPosition
                   = Evaluated[i].currentPosition
            /\ UsedPrediction(Evaluated[i]).aircraft.velocity = Evaluated[i].velocity
            /\ Evaluated[i] # Evaluated[j]
                   => UsedPrediction(Evaluated[i]) # UsedPrediction(Evaluated[j])

\* C37: the two samples a cycle compares at one index refer to one instant:
\* for every pair it evaluates and every index the time stamps of the two
\* trajectories are equal, also when the aircraft were last updated at
\* different times or one trajectory comes from the cache.
C37_SamplesAtOneInstant ==
    CycleRan =>
        \A i \in 1..Len(Evaluated) : \A j \in 1..Len(Evaluated) :
            \A k \in Samples(Evaluated[i], Evaluated[j]) :
                UsedPrediction(Evaluated[i]).timeStamps[k]
                    = UsedPrediction(Evaluated[j]).timeStamps[k]

\* C23: a cycle does not reuse the cached prediction of an aircraft whose
\* position is newer than the one the prediction was computed from: the
\* prediction it uses starts from the aircraft as handed in.
C23_NewPositionRecomputes ==
    [][\A aircraft \in DetectInputs(now) :
          (IsDetectStep /\ lastCycle'.aircraft = aircraft /\ lastCycle'.at = now
             /\ Len(filterActiveAircraft(aircraft, now)) >= 2)
          => \A i \in 1..Len(aircraft) :
                 (/\ MapHas(trajectoryCache, aircraft[i].callsign)
                  /\ MapGet(trajectoryCache, aircraft[i].callsign).aircraft.currentPosition
                         # aircraft[i].currentPosition)
                 => MapGet(trajectoryCache', aircraft[i].callsign).aircraft = aircraft[i]]_vars

\* the place of the pair (i, j) in the order of the pair loop over n aircraft
PairIndex(i, j, n) == (i - 1) * n - ((i - 1) * i) \div 2 + (j - i)

\* C24: objects stored by processRadarData between the awaits of a running
\* cycle change neither the aircraft nor the positions the cycle evaluates:
\* the pairs it reads, in order, are the pairs of its input as that input was
\* when the cycle began, a finished cycle has read them all, and the aircraft
\* of the conflicts it publishes are aircraft of that input.
C24_CycleReadsItsInput ==
    /\ \A i \in 1..Len(cycle.snapshot) : \A j \in 1..Len(cycle.snapshot) :
           (i < j /\ PairIndex(i, j, Len(cycle.snapshot)) <= Len(cycle.evaluated))
               => cycle.evaluated[PairIndex(i, j, Len(cycle.snapshot))]
                      = <<cycle.snapshot[i], cycle.snapshot[j]>>
    /\ Len(cycle.evaluated) * 2 <= Len(cycle.snapshot) * (Len(cycle.snapshot) - 1)
    /\ cycle.pc = "done" =>
           /\ Len(cycle.evaluated) * 2 = Len(cycle.snapshot) * (Len(cycle.snapshot) - 1)
           /\ Len(cycle.snapshot) >= 2 =>
                  /\ lastCycle.at = cycle.at
                  /\ lastCycle.aircraft = cycle.snapshot
                  /\ \A c \in DetectedIn(lastCycle) :
                         \E i \in 1..Len(cycle.snapshot), j \in 1..Len(cycle.snapshot) :
                             c.aircraftInvolved = <<cycle.snapshot[i], cycle.snapshot[j]>>

\* a finished cycle of three pairs during which a newer object was stored
\* for an aircraft of its input
C24_Witness ==
    /\ cycle.pc = "done"
    /\ cycle.interleaved
    /\ Len(cycle.evaluated) = 3
    /\ lastCycle.detected # <<>>
    /\ \E k \in 1..Len(cycle.snapshot) :
           objects[MapGet(aircraftRefs, cycle.snapshot[k].callsign)] # cycle.snapshot[k]

\* C25: every conflict a cycle detects is handed to the subscribers by that
\* very call, with an empty list of resolution options: the list the external
\* resolution call would fill is not waited for.
C25_DetectedDeliveredInCycle ==
    [][(IsDetectStep /\ subscribers > 0 /\ lastCycle'.detected # <<>>)
          => /\ delivered'.kind = "notified"
             /\ delivered'.at = now
             /\ \A c \in DetectedIn(lastCycle') :
                    /\ c.resolutionOptions = <<>>
                    /\ \E k \in 1..Len(delivered'.conflicts) : delivered'.conflicts[k] = c]_vars

C25_Witness ==
    /\ cReturned.kind = "detectConflicts"
    /\ subscribers > 0
    /\ lastCycle.detected # <<>>
    /\ lastCycle.at = TickSeconds
    /\ delivered.kind = "notified"
    /\ delivered.at = TickSeconds

\* a response that carries what the function schema requires: an array of
\* resolutions, each with its required fields
WellFormedResponse(response) ==
    /\ response.kind = "response"
    /\ response.functionCall # None
    /\ response.functionCall[1].json = "object"
    /\ response.functionCall[1].resolutions.type = "array"
    /\ \A k \in 1..Len(response.functionCall[1].resolutions.items) :
           response.functionCall[1].resolutions.items[k] = "res-001"

\* C26: when the resolution call throws, times out or comes back malformed,
\* generateConflictResolutions returns the one fallback option and
\* analyzeConflict hands no error to its caller.
C26_FailedCallFallsBack ==
    (cReturned.kind = "analyzeConflict" /\ ~WellFormedResponse(cReturned.response))
        => /\ cReturned.aiResolutions = FallbackResolutions
           /\ ~cReturned.threw

\* C27: once shutdown has completed no detection timer is left to fire and
\* the track table, the aircraft map, the active conflicts, the trajectory
\* cache and the conflict history are all empty.
C27_ShutdownLeavesNothing ==
    cReturned.kind = "shutdown"
        => /\ detectionTimers = <<>>
           /\ radarTracks = <<>>
           /\ aircraftMap = <<>>
           /\ activeConflicts = <<>>
           /\ trajectoryCache = <<>>
           /\ conflictHistory = <<>>

\* C30: while the service runs, a tick of the detection timer runs the
\* detector on the current snapshot.
C30_TickRunsDetector ==
    [][(cReturned'.kind = "timer" /\ isRunning)
          => /\ lastCycle'.kind = "detectConflicts"
             /\ lastCycle'.at = now]_vars

\* C28: a failure on one aircraft of a cycle leaves the pairs of the others
\* evaluated, the active set reconciled and the subscribers notified.
C28_FailureDoesNotAbortCycle ==
    (lastCycle # NoResult /\ lastCycle.aircraft = <<AAL1(lastCycle.at), UAL2(lastCycle.at), N0DATE>>)
        => /\ ~lastCycle.threw
           /\ \E c \in ActiveRecords : PairOf(c) = {"AAL1", "UAL2"}

\* Array.from(this.activeConflicts.values())
getActiveConflicts(active) == MapValues(active)

\* C31: the list detectConflicts returns is the active set as
\* getActiveConflicts gives it right after the call, for every input, also
\* one with fewer than two active aircraft.
C31_ReturnsActiveSet ==
    cReturned.kind = "detectConflicts"
        => cReturned.conflicts = getActiveConflicts(activeConflicts)

\* C33: the active set never holds a record whose status is RESOLVED or
\* whose id is in the history, whatever analyzeConflict completes after a
\* cycle or updateConflictStatus resolved its conflict, and the history
\* holds no id twice.
C33_ResolvedStaysOut ==
    /\ \A c \in ActiveRecords :
           /\ c.status # "RESOLVED"
           /\ \A h \in HistoryRecords : h.id # c.id
    /\ \A m \in 1..Len(conflictHistory), n \in 1..Len(conflictHistory) :
           m # n => conflictHistory[m].id # conflictHistory[n].id

\* a step in which an analyzeConflict call completes
IsAnalyzeCompletion == Len(pendingAnalyses') < Len(pendingAnalyses)

\* C34: the completion of analyzeConflict changes the resolution list of its
\* record only: every active record keeps the status it had, also one that
\* updateConflictStatus set while the call was waiting.
C34_AnalysisKeepsStatus ==
    [][IsAnalyzeCompletion
          => \A id \in KeysOf(activeConflicts) :
                 /\ MapHas(activeConflicts', id)
                 /\ MapGet(activeConflicts', id).status
                        = MapGet(activeConflicts, id).status]_vars

\* C35: updateConflictStatus with an id that is not active fails and leaves
\* the active set and the history as they were; with RESOLVED and an active
\* id it takes the record out of the active set and the history then holds
\* it with status RESOLVED.
C35_StatusUpdateContract ==
    [][cReturned'.kind = "updateConflictStatus"
          => IF MapHas(activeConflicts, cReturned'.conflictId)
             THEN /\ ~cReturned'.threw
                  /\ cReturned'.status = "RESOLVED"
                        => /\ ~MapHas(activeConflicts', cReturned'.conflictId)
                           /\ \E k \in 1..Len(conflictHistory') :
                                  /\ conflictHistory'[k].id = cReturned'.conflictId
                                  /\ conflictHistory'[k].status = "RESOLVED"
             ELSE /\ cReturned'.threw
                  /\ activeConflicts' = activeConflicts
                  /\ conflictHistory' = conflictHistory]_vars

\* C1: when the same unordered pair of aircraft is in conflict in two
\* consecutive detection cycles, the record of the second cycle carries the
\* id of the record of the first.
C1_StableIdAcrossCycles ==
    [][(IsDetectStep /\ lastCycle.kind = "detectConflicts") =>
          \A c \in DetectedIn(lastCycle), d \in DetectedIn(lastCycle') :
              PairOf(c) = PairOf(d) => d.id = c.id]_vars

\* C2: an active record set to ACKNOWLEDGED or RESOLVING whose pair the next
\* cycle still finds in conflict stays active with that status: it is not
\* reset to DETECTED and not moved to the history as RESOLVED.
C2_StatusSurvivesCycle ==
    [][IsDetectStep =>
          \A c \in ActiveRecords :
              (/\ c.status \in {"ACKNOWLEDGED", "RESOLVING"}
               /\ \E d \in DetectedIn(lastCycle') : PairOf(d) = PairOf(c))
              => \E e \in ActiveRecords' : PairOf(e) = PairOf(c) /\ e.status = c.status]_vars

\* C3: after every cycle, also one whose input has fewer than two active
\* aircraft, every record that was active before it and whose pair the
\* cycle does not find in conflict is RESOLVED, in the history, and no
\* longer active.
C3_UndetectedAreResolved ==
    [][IsDetectStep =>
          \A c \in ActiveRecords :
              (~\E d \in DetectedIn(lastCycle') : PairOf(d) = PairOf(c))
              => /\ ~MapHas(activeConflicts', c.id)
                 /\ \E h \in HistoryRecords' : h.id = c.id /\ h.status = "RESOLVED"]_vars

\* C4: after any sequence of detectConflicts, analyzeConflict and
\* updateConflictStatus calls the active set holds at most one record for
\* each unordered pair of aircraft.
C4_OneActiveRecordPerPair ==
    \A i, j \in 1..Len(activeConflicts) :
        PairOf(activeConflicts[i].value) = PairOf(activeConflicts[j].value) => i = j

\* ========================================================================
\* OpenAIClient (part_008): executeWithRetry and enforceRateLimit
\* ========================================================================
\* Times are in milliseconds.  A caller is one executeWithRetry call; between
\* two awaits its code runs without interruption, so every action below is
\* the code from one await to the next.

\* the length of the rate-limit window
WindowMs == 60000

\* this.retryConfig as the constructor sets it
DefaultRetryConfig ==
    [maxRetries |-> 3, baseDelay |-> 1000, maxDelay |-> 30000, backoffMultiplier |-> 2]

\* customRetryConfig: some of the fields
CustomRetryConfigs ==
    { [maxRetries |-> Some(1), maxDelay |-> None],
      [maxRetries |-> Some(2), maxDelay |-> Some(1500)] }

\* { ...this.retryConfig, ...customRetryConfig }
mergeRetryConfig(retryConfig, customRetryConfig) ==
    [retryConfig EXCEPT
        !.maxRetries = IF customRetryConfig.maxRetries = None THEN @
                       ELSE customRetryConfig.maxRetries[1],
        !.maxDelay = IF customRetryConfig.maxDelay = None THEN @
                     ELSE customRetryConfig.maxDelay[1]]

\* the limits updateRateLimitConfig is handed
RateLimits == {2}

\* what an operation rejects with: a network error, an error with an HTTP
\* status and an error with an API error type
NetworkError == [message |-> "ECONNRESET", type |-> None, status |-> None]

StatusError(status) == [message |-> "", type |-> None, status |-> Some(status)]

TypedError(type) == [message |-> "", type |-> Some(type), status |-> Some(500)]

OperationErrors == {NetworkError, StatusError(400), TypedError("invalid_request_error")}

Fulfilled == [message |-> "fulfilled", type |-> None, status |-> None]

retryableErrors ==
    {"rate_limit_exceeded", "server_error", "timeout", "connection_error",
     "service_unavailable"}

isRetryableError(error) ==
    IF error.message \in {"ECONNRESET", "ETIMEDOUT", "ENOTFOUND"} THEN TRUE
    ELSE IF error.type # None THEN error.type[1] \in retryableErrors
    ELSE IF error.status # None THEN error.status[1] >= 500 \/ error.status[1] = 429
    ELSE FALSE

RECURSIVE Power(_, _)
Power(base, exponent) == IF exponent = 0 THEN 1 ELSE base * Power(base, exponent - 1)

\* a delay without the cap of maxDelay
retryDelayUncapped(config, attempt) ==
    config.baseDelay * Power(config.backoffMultiplier, attempt)

\* Math.min(baseDelay * Math.pow(backoffMultiplier, attempt), maxDelay)
retryDelay(config, attempt) ==
    Min(config.baseDelay * Power(config.backoffMultiplier, attempt), config.maxDelay)

\* this.requestCount++; this.lastRequestTime = Date.now()
admit(lim, nowT) ==
    [lim EXCEPT !.requestCount = @ + 1, !.lastRequestTime = nowT]

\* enforceRateLimit from its entry to its first await or, without one, to
\* its end.  60000 / requestsPerMinute is whole for the limits modelled.
enforceRateLimit(lim, nowT) ==
    LET reset == IF nowT - lim.windowStart >= WindowMs
                 THEN [lim EXCEPT !.requestCount = 0, !.windowStart = nowT]
                 ELSE lim
        timeSinceLastRequest == nowT - reset.lastRequestTime
        minInterval == WindowMs \div reset.requestsPerMinute
    IN  IF reset.requestCount >= reset.requestsPerMinute
        THEN [limiter |-> reset, pc |-> "windowWait",
              wake |-> nowT + (WindowMs - (nowT - reset.windowStart))]
        ELSE IF timeSinceLastRequest < minInterval
        THEN [limiter |-> reset, pc |-> "spacingWait",
              wake |-> nowT + (minInterval - timeSinceLastRequest)]
        ELSE [limiter |-> admit(reset, nowT), pc |-> "operation", wake |-> 0]

\* caller c, with the locals given, runs into enforceRateLimit
EnterRateLimit(c, locals) ==
    \E r \in {enforceRateLimit(limiter, clientNow)} :
        /\ limiter' = r.limiter
        /\ callers' = [callers EXCEPT ![c] = [locals EXCEPT !.pc = r.pc, !.wake = r.wake]]
        /\ admitted' = IF r.pc = "operation" THEN Append(admitted, clientNow) ELSE admitted

nonClientVars ==
    <<decoderVars, radarVars, conflictVars, serviceVars, severityVars, isolationVars>>

\* executeWithRetry is called: attempt 0 up to the first await.  The calls
\* are numbered in the order they are made.
ExecuteWithRetry(c) ==
    /\ callers[c].pc = "idle"
    /\ \A d \in 1..(c - 1) : callers[d].pc # "idle"
    /\ \E customRetryConfig \in CustomRetryConfigs :
           EnterRateLimit(c, [callers[c] EXCEPT
               !.config = mergeRetryConfig(DefaultRetryConfig, customRetryConfig)])
    /\ UNCHANGED clientNow
    /\ UNCHANGED nonClientVars

\* the wait for the end of the window is over: enforceRateLimit calls itself
WindowWaitOver(c) ==
    /\ callers[c].pc = "windowWait"
    /\ clientNow >= callers[c].wake
    /\ EnterRateLimit(c, callers[c])
    /\ UNCHANGED clientNow
    /\ UNCHANGED nonClientVars

\* the wait for the minimum interval is over: the request is counted
SpacingWaitOver(c) ==
    /\ callers[c].pc = "spacingWait"
    /\ clientNow >= callers[c].wake
    /\ limiter' = admit(limiter, clientNow)
    /\ admitted' = Append(admitted, clientNow)
    /\ callers' = [callers EXCEPT ![c].pc = "operation", ![c].wake = 0]
    /\ UNCHANGED clientNow
    /\ UNCHANGED nonClientVars

\* the operation settles: the return, or the catch block up to its await
OperationSettles(c) ==
    /\ callers[c].pc = "operation"
    /\ \E outcome \in OperationErrors \cup {Fulfilled} :
           LET config == callers[c].config
               attempt == callers[c].attempt
               ran == [callers[c] EXCEPT !.outcomes = Append(@, outcome)]
           IN  callers' = [callers EXCEPT ![c] =
                   IF outcome = Fulfilled THEN [ran EXCEPT !.pc = "returned"]
                   ELSE IF ~isRetryableError(outcome) \/ attempt = config.maxRetries
                   THEN [ran EXCEPT !.pc = "threw"]
                   ELSE [ran EXCEPT !.pc = "retryWait",
                                    !.delays = Append(@, retryDelay(config, attempt)),
                                    !.wake = clientNow + retryDelay(config, attempt)]]
    /\ UNCHANGED <<clientNow, limiter, admitted>>
    /\ UNCHANGED nonClientVars

\* the delay is over: attempt++ and the next turn of the loop up to its await
RetryWaitOver(c) ==
    /\ callers[c].pc = "retryWait"
    /\ clientNow >= callers[c].wake
    /\ EnterRateLimit(c, [callers[c] EXCEPT !.attempt = @ + 1])
    /\ UNCHANGED clientNow
    /\ UNCHANGED nonClientVars

Waiting == {c \in Callers : callers[c].pc \in {"windowWait", "spacingWait", "retryWait"}
                            /\ callers[c].wake > clientNow}

\* time passes up to the next timer due
ClockAdvances ==
    /\ Waiting # {}
    /\ \E c \in Waiting :
           /\ \A d \in Waiting : callers[c].wake <= callers[d].wake
           /\ clientNow' = callers[c].wake
    /\ UNCHANGED <<limiter, callers, admitted>>
    /\ UNCHANGED nonClientVars

\* updateRateLimitConfig({ requestsPerMinute }), before the first request
UpdateRateLimitConfig ==
    /\ admitted = <<>>
    /\ \E requestsPerMinute \in RateLimits :
           /\ limiter.requestsPerMinute # requestsPerMinute
           /\ limiter' = [limiter EXCEPT !.requestsPerMinute = requestsPerMinute]
    /\ UNCHANGED <<clientNow, callers, admitted>>
    /\ UNCHANGED nonClientVars

CallerStep(c) ==
    \/ ExecuteWithRetry(c)
    \/ WindowWaitOver(c)
    \/ SpacingWaitOver(c)
    \/ OperationSettles(c)
    \/ RetryWaitOver(c)

ClientNext ==
    \/ \E c \in Callers : CallerStep(c)
    \/ ClockAdvances
    \/ UpdateRateLimitConfig

\* the event loop runs every continuation that is ready and every timer fires
SpecClient ==
    /\ ConflictSpecInit
    /\ [][ClientNext]_vars
    /\ \A c \in Callers : WF_vars(CallerStep(c))
    /\ WF_vars(ClockAdvances)

\* ------------------------------------------------------------------------
\* Claims about the client (checked under SpecClient)
\* ------------------------------------------------------------------------
\* the requests admitted in the 60 seconds that begin with admission i
AdmittedInWindowFrom(i) ==
    {j \in 1..Len(admitted) :
        admitted[i] <= admitted[j] /\ admitted[j] < admitted[i] + WindowMs}

\* C39: under any interleaving of concurrent executeWithRetry callers the
\* number of requests enforceRateLimit admits within one 60-second window
\* never exceeds requestsPerMinute.
C39_AdmittedWithinLimit ==
    \A i \in 1..Len(admitted) :
        Cardinality(AdmittedInWindowFrom(i)) <= limiter.requestsPerMinute

Done(c) == callers[c].pc \in {"returned", "threw"}

Runs(c) == Len(callers[c].outcomes)

\* what a call has done so far agrees with the retry contract
RetryContract(c) ==
    LET call == callers[c]
        config == call.config
    IN  call.pc # "idle" =>
          /\ Runs(c) <= config.maxRetries + 1
          /\ \A k \in 1..(Runs(c) - 1) :
                 call.outcomes[k] # Fulfilled /\ isRetryableError(call.outcomes[k])
          /\ Len(call.delays) = IF Done(c) THEN Runs(c) - 1 ELSE Runs(c)
          /\ \A k \in 1..Len(call.delays) :
                 call.delays[k]
                     = IF config.baseDelay * Power(config.backoffMultiplier, k - 1)
                            < config.maxDelay
                       THEN config.baseDelay * Power(config.backoffMultiplier, k - 1)
                       ELSE config.maxDelay
          /\ call.pc = "returned" => call.outcomes[Runs(c)] = Fulfilled
          /\ call.pc = "threw" =>
                 /\ call.outcomes[Runs(c)] # Fulfilled
                 /\ \/ ~isRetryableError(call.outcomes[Runs(c)])
                    \/ Runs(c) = config.maxRetries + 1

\* C40: executeWithRetry runs the operation at most maxRetries + 1 times and
\* then terminates: it returns the first successful result, rethrows a
\* non-retryable error at once, rethrows the last error after the final
\* attempt, and waits min(baseDelay * backoffMultiplier^k, maxDelay) before
\* retry k + 1.
C40_RetryTerminates ==
    /\ [](\A c \in Callers : RetryContract(c))
    /\ \A c \in Callers : (callers[c].pc # "idle") ~> Done(c)

\* a call that threw the last error after three runs, its second delay capped
C40_Witness ==
    \E c \in Callers :
        /\ callers[c].pc = "threw"
        /\ Runs(c) = callers[c].config.maxRetries + 1
        /\ callers[c].delays = <<1000, 1500>>
        /\ isRetryableError(callers[c].outcomes[Runs(c)])

====
